---------------------------- MODULE Spec2Model ----------------------------
(***************************************************************************)
(* Model of the asset-processing scripts of the repository:                *)
(*   scripts/blender/convert-low-poly.py   (low-poly conversion pipeline)  *)
(*   scripts/apply-shaded-texture.py       (material replacement)          *)
(*   scripts/fix-origin-bottom.py          (origin fix)                    *)
(*   rust/engine/scripts/generate_lod_performance_scene.py (fixture)       *)
(*                                                                         *)
(* Command-line tokens and paths are sequences of one-character strings,   *)
(* so that lower(), upper(), strip(), endswith(), os.path.splitext(),      *)
(* int() and float() are computed character by character.                  *)
(***************************************************************************)
EXTENDS Integers, Sequences, FiniteSets, TLC

(***************************************************************************)
(* Characters and Python string methods                                    *)
(***************************************************************************)
Uppers == <<"A","B","C","D","E","F","G","H","I","J","K","L","M",
            "N","O","P","Q","R","S","T","U","V","W","X","Y","Z">>

Lowers == <<"a","b","c","d","e","f","g","h","i","j","k","l","m",
            "n","o","p","q","r","s","t","u","v","w","x","y","z">>

DigitChars == <<"0","1","2","3","4","5","6","7","8","9">>

Whitespace == {" ", "\t", "\n", "\r"}

IsDigit(c) == \E i \in 1..10 : DigitChars[i] = c

DigitVal(c) == (CHOOSE i \in 1..10 : DigitChars[i] = c) - 1

LowerChar(c) ==
    IF \E i \in 1..26 : Uppers[i] = c
    THEN Lowers[CHOOSE i \in 1..26 : Uppers[i] = c]
    ELSE c

UpperChar(c) ==
    IF \E i \in 1..26 : Lowers[i] = c
    THEN Uppers[CHOOSE i \in 1..26 : Lowers[i] = c]
    ELSE c

\* str.lower()
Lower(s) == [i \in 1..Len(s) |-> LowerChar(s[i])]

\* str.upper()
Upper(s) == [i \in 1..Len(s) |-> UpperChar(s[i])]

\* str.endswith(suffix)
EndsWith(s, suffix) ==
    /\ Len(s) >= Len(suffix)
    /\ SubSeq(s, Len(s) - Len(suffix) + 1, Len(s)) = suffix

\* str.strip(): leading and trailing whitespace removed
Strip(s) ==
    LET inked == {i \in 1..Len(s) : s[i] \notin Whitespace}
    IN  IF inked = {} THEN <<>>
        ELSE LET lo == CHOOSE i \in inked : \A j \in inked : i <= j
                 hi == CHOOSE i \in inked : \A j \in inked : i >= j
             IN  SubSeq(s, lo, hi)

\* Index of the last occurrence of character c in s, 0 when there is none
\* (str.rfind, shifted to 1-based positions).
RFind(s, c) ==
    LET at == {i \in 1..Len(s) : s[i] = c}
    IN  IF at = {} THEN 0 ELSE CHOOSE i \in at : \A j \in at : i >= j

\* os.path.splitext(p) (posixpath: genericpath._splitext with sep "/"):
\* the extension starts at the last dot of the last path component, and
\* leading dots of that component do not start an extension.
SplitExt(p) ==
    LET sepIndex == RFind(p, "/")
        dotIndex == RFind(p, ".")
    IN  IF /\ dotIndex > sepIndex
           /\ \E k \in (sepIndex + 1)..(dotIndex - 1) : p[k] # "."
        THEN <<SubSeq(p, 1, dotIndex - 1), SubSeq(p, dotIndex, Len(p))>>
        ELSE <<p, <<>> >>

(***************************************************************************)
(* int(str) and float(str)                                                 *)
(***************************************************************************)
\* A run of decimal digits in which single underscores may separate digits.
IsDigitRun(s) ==
    /\ Len(s) > 0
    /\ \A i \in 1..Len(s) : IsDigit(s[i]) \/ s[i] = "_"
    /\ IsDigit(s[1])
    /\ IsDigit(s[Len(s)])
    /\ \A i \in 1..(Len(s) - 1) : ~(s[i] = "_" /\ s[i + 1] = "_")

RECURSIVE DigitRunVal(_)
DigitRunVal(s) ==
    IF Len(s) = 0 THEN 0
    ELSE IF s[Len(s)] = "_" THEN DigitRunVal(SubSeq(s, 1, Len(s) - 1))
    ELSE 10 * DigitRunVal(SubSeq(s, 1, Len(s) - 1)) + DigitVal(s[Len(s)])

\* Number of digits of a digit run (underscores not counted).
DigitCount(s) == Cardinality({i \in 1..Len(s) : IsDigit(s[i])})

RECURSIVE Pow10(_)
Pow10(n) == IF n <= 0 THEN 1 ELSE 10 * Pow10(n - 1)

HasSign(t) == Len(t) > 0 /\ t[1] \in {"+", "-"}

Unsigned(t) == IF HasSign(t) THEN Tail(t) ELSE t

\* int(s): [ok |-> FALSE] stands for ValueError.
ParseInt(s) ==
    LET t    == Strip(s)
        body == Unsigned(t)
    IN  IF IsDigitRun(body)
        THEN [ok |-> TRUE,
              val |-> IF HasSign(t) /\ t[1] = "-" THEN 0 - DigitRunVal(body)
                      ELSE DigitRunVal(body)]
        ELSE [ok |-> FALSE, val |-> 0]

\* A float is kept exactly, as the fraction num/den with den a power of ten;
\* kind tells a finite value from inf and nan.
Rat(n, d) == [kind |-> "fin", num |-> n, den |-> d]

RatEq(a, b) == a.kind = "fin" /\ b.kind = "fin" /\ a.num * b.den = b.num * a.den

\* float(s) for the decimal grammar [sign] digits [. digits] | [sign] . digits
\* and the words inf, infinity, nan; [ok |-> FALSE] stands for ValueError.
\* Exponent notation is not in the token alphabet of this model.
ParseFloat(s) ==
    LET t     == Strip(s)
        neg   == HasSign(t) /\ t[1] = "-"
        body  == Unsigned(t)
        word  == Lower(body)
        dot   == RFind(body, ".")
        whole == IF dot = 0 THEN body ELSE SubSeq(body, 1, dot - 1)
        frac  == IF dot = 0 THEN <<>> ELSE SubSeq(body, dot + 1, Len(body))
        okDec == /\ Len(whole) + Len(frac) > 0
                 /\ Len(whole) = 0 \/ IsDigitRun(whole)
                 /\ Len(frac) = 0 \/ IsDigitRun(frac)
        mag   == DigitRunVal(whole) * Pow10(DigitCount(frac)) + DigitRunVal(frac)
    IN  IF word \in {<<"i","n","f">>, <<"i","n","f","i","n","i","t","y">>}
        THEN [ok |-> TRUE, val |-> [kind |-> "inf", num |-> IF neg THEN -1 ELSE 1, den |-> 1]]
        ELSE IF word = <<"n","a","n">>
        THEN [ok |-> TRUE, val |-> [kind |-> "nan", num |-> 0, den |-> 1]]
        ELSE IF okDec
        THEN [ok |-> TRUE,
              val |-> Rat(IF neg THEN 0 - mag ELSE mag, Pow10(DigitCount(frac)))]
        ELSE [ok |-> FALSE, val |-> Rat(0, 1)]

(***************************************************************************)
(* String literals of the scripts                                          *)
(***************************************************************************)
FlagGlb == <<"-","-","g","l","b">>

FlagWebp == <<"-","-","w","e","b","p">>

FlagQuality == <<"-","-","q","u","a","l","i","t","y">>

FlagRatio == <<"-","-","r","a","t","i","o">>

FlagTextureSize == <<"-","-","t","e","x","t","u","r","e","-","s","i","z","e">>

FlagNormalMapSize == <<"-","-","n","o","r","m","a","l","-","m","a","p","-","s","i","z","e">>

FlagTextureFormat == <<"-","-","t","e","x","t","u","r","e","-","f","o","r","m","a","t">>

FlagTextureQuality == <<"-","-","t","e","x","t","u","r","e","-","q","u","a","l","i","t","y">>

FlagRemoveTextures == <<"-","-","r","e","m","o","v","e","-","t","e","x","t","u","r","e","s">>

FlagKeepOriginalTextures == <<"-","-","k","e","e","p","-","o","r","i","g","i","n","a","l","-","t","e","x","t","u","r","e","s">>

FlagNoFixOrigin == <<"-","-","n","o","-","f","i","x","-","o","r","i","g","i","n">>

FlagApplyTexture == <<"-","-","a","p","p","l","y","-","t","e","x","t","u","r","e">>

FlagPreserveAnimations ==
    <<"-","-","p","r","e","s","e","r","v","e","-","a","n","i","m","a","t","i","o","n","s">>

FlagColor == <<"-","-","c","o","l","o","r">>

FlagImage == <<"-","-","i","m","a","g","e">>

ExtFbx == <<".","f","b","x">>

ExtGlb == <<".","g","l","b">>

ExtGltf == <<".","g","l","t","f">>

PNG == <<"P","N","G">>

JPEG == <<"J","P","E","G">>

StrWebp == <<"w","e","b","p">>

(***************************************************************************)
(* Optional values (Python None) and list lookups                          *)
(***************************************************************************)
None == <<>>

Some(v) == <<v>>

\* tok in a
In(a, tok) == \E i \in 1..Len(a) : a[i] = tok

\* a.index(tok), as a 1-based position: the first occurrence
Index(a, tok) ==
    CHOOSE i \in 1..Len(a) : a[i] = tok /\ \A j \in 1..(i - 1) : a[j] # tok

\* "if tok in a: idx = a.index(tok); if idx + 1 < len(a)"
HasValue(a, tok) == In(a, tok) /\ Index(a, tok) + 1 <= Len(a)

\* a[idx + 1]
ValueOf(a, tok) == a[Index(a, tok) + 1]

(***************************************************************************)
(* State                                                                   *)
(***************************************************************************)
VARIABLES
    script,                  \* which script this process runs
    hasSep,                  \* "--" in sys.argv
    args,                    \* argv[argv.index("--") + 1:]
    pc,                      \* position in the script
    exit_code,               \* None while running, Some(code) once the process ended
    log,                     \* errors and warnings printed so far
    calls,                   \* host-API and subprocess calls made so far
    input_path,
    output_path,
    proceed_with_glb,
    use_webp_flag,
    ratio,
    texture_size,
    normal_map_size,
    remove_textures,
    fix_origin,
    keep_original_textures,
    texture_format,
    texture_quality,
    apply_texture_path,
    color,                   \* apply-shaded-texture.py: the flat colour
    image_path,              \* apply-shaded-texture.py: --image
    preserve_animations,     \* blender_prepare_tpose.py: --preserve-animations
    host_scene,              \* what the import put into the host's scene
    meshes,                  \* the mesh objects the script found
    armature,                \* whether the script found an armature
    nodes,                   \* the shader nodes of bpy.data.materials, in loop order
    images,                  \* bpy.data.images
    images_before,           \* bpy.data.images as the texture pass found them
    normal_maps,
    regular_textures,
    tex_i,                   \* index of the loop the texture pass is in
    materials,               \* per mesh, obj.data.materials
    tex_mat,                 \* the material the script built
    objects,                 \* the armature and mesh objects the origin fix works on
    cursor,                  \* bpy.context.scene.cursor.location
    obj_i,                   \* index of the mesh the origin loop is at
    scene,                   \* generate_performance_scene: the document
    entity_id,
    grid_size,
    x,
    z

runVars == <<script, hasSep, args>>

pathVars == <<input_path, output_path, proceed_with_glb>>

presetVars == <<ratio, texture_size, texture_format, texture_quality, keep_original_textures>>

flagVars == <<use_webp_flag, normal_map_size, remove_textures, fix_origin, apply_texture_path>>

shadeVars == <<color, image_path>>

tposeVars == <<preserve_animations>>

texVars == <<nodes, images, images_before, normal_maps, regular_textures, tex_i,
             materials, tex_mat>>

originVars == <<objects, cursor, obj_i>>

sceneVars == <<host_scene, meshes, armature>>

genVars == <<scene, entity_id, grid_size, x, z>>

vars == <<runVars, pc, exit_code, log, calls, pathVars, presetVars, flagVars,
          shadeVars, tposeVars, texVars, originVars, sceneVars, genVars>>

\* A name not bound yet.
Unset == "unset"

\* sys.exit(1) after printing msg
Exit1(msg) ==
    /\ pc' = "exit"
    /\ exit_code' = Some(1)
    /\ log' = Append(log, msg)

\* An exception nobody catches ends the script with a traceback: exit status 1
\* under a plain interpreter, 0 under a host started without --python-exit-code.
Uncaught(exc) ==
    /\ pc' = "crash"
    /\ exit_code' \in {Some(0), Some(1)}
    /\ log' = Append(log, exc)

(***************************************************************************)
(* convert-low-poly.py: argument parsing                                   *)
(***************************************************************************)
\* CorrectedOutputPath comparing the extension without lower-casing
CorrectedOutputPathCaseSensitive(p) ==
    IF ~EndsWith(p, ExtGlb) THEN SplitExt(p)[1] \o ExtGlb ELSE p

\* lines 34-37: with --glb the output path gets the extension .glb
CorrectedOutputPath(p) ==
    IF ~EndsWith(Lower(p), ExtGlb) THEN SplitExt(p)[1] \o ExtGlb ELSE p

\* lines 9-37: usage check, positional arguments, --glb
ParsePositional ==
    /\ script = "convert"
    /\ pc = "start"
    /\ IF ~hasSep
       THEN /\ Exit1("Usage")
            /\ UNCHANGED pathVars
       ELSE IF Len(args) < 2
       THEN /\ Uncaught("IndexError")
            /\ UNCHANGED pathVars
       ELSE /\ input_path' = args[1]
            /\ proceed_with_glb' = In(args, FlagGlb)
            /\ output_path' = IF In(args, FlagGlb)
                              THEN CorrectedOutputPath(args[2])
                              ELSE args[2]
            /\ pc' = "defaults"
            /\ UNCHANGED <<exit_code, log>>
    /\ UNCHANGED <<runVars, calls, presetVars, flagVars, shadeVars, tposeVars, texVars, originVars, sceneVars, genVars>>

\* lines 39-55: default settings, then --webp
ParseWebp ==
    /\ script = "convert"
    /\ pc = "defaults"
    /\ ratio' = Rat(15, 100)
    /\ normal_map_size' = None
    /\ remove_textures' = FALSE
    /\ fix_origin' = TRUE
    /\ keep_original_textures' = FALSE
    /\ use_webp_flag' = In(args, FlagWebp)
    /\ texture_format' = IF In(args, FlagWebp) THEN JPEG ELSE PNG
    /\ texture_quality' = IF In(args, FlagWebp) THEN 30 ELSE 90
    /\ texture_size' = IF In(args, FlagWebp) THEN 32 ELSE 512
    /\ pc' = "quality"
    /\ UNCHANGED <<genVars, shadeVars, tposeVars, texVars, originVars, sceneVars, runVars, exit_code, log, calls, pathVars, apply_texture_path>>

\* ApplyPreset with the Balanced preset left at the default texture size
ApplyPresetBalancedDefault(quality, c) ==
    IF quality = 1
    THEN [c EXCEPT !.ratio = Rat(5, 100), !.texture_size = 256,
                   !.texture_format = JPEG, !.texture_quality = 75]
    ELSE IF quality = 2
    THEN [c EXCEPT !.ratio = Rat(1, 10), !.texture_size = 512,
                   !.texture_format = JPEG, !.texture_quality = 85]
    ELSE IF quality = 3
    THEN [c EXCEPT !.ratio = Rat(15, 100), !.texture_format = PNG]
    ELSE IF quality = 4
    THEN [c EXCEPT !.ratio = Rat(25, 100), !.texture_size = 2048,
                   !.texture_format = PNG]
    ELSE IF quality = 5
    THEN [c EXCEPT !.ratio = Rat(4, 10), !.texture_size = 4096,
                   !.texture_format = PNG, !.keep_original_textures = TRUE]
    ELSE c

\* lines 63-85: what preset `quality` assigns, given the settings c so far
ApplyPreset(quality, c) ==
    IF quality = 1
    THEN [c EXCEPT !.ratio = Rat(5, 100), !.texture_size = 256,
                   !.texture_format = JPEG, !.texture_quality = 75]
    ELSE IF quality = 2
    THEN [c EXCEPT !.ratio = Rat(1, 10), !.texture_size = 512,
                   !.texture_format = JPEG, !.texture_quality = 85]
    ELSE IF quality = 3
    THEN [c EXCEPT !.ratio = Rat(15, 100), !.texture_size = 1024,
                   !.texture_format = PNG]
    ELSE IF quality = 4
    THEN [c EXCEPT !.ratio = Rat(25, 100), !.texture_size = 2048,
                   !.texture_format = PNG]
    ELSE IF quality = 5
    THEN [c EXCEPT !.ratio = Rat(4, 10), !.texture_size = 4096,
                   !.texture_format = PNG, !.keep_original_textures = TRUE]
    ELSE c

\* lines 57-88: --quality
ParseQuality ==
    /\ script = "convert"
    /\ pc = "quality"
    /\ LET c == [ratio |-> ratio, texture_size |-> texture_size,
                 texture_format |-> texture_format,
                 texture_quality |-> texture_quality,
                 keep_original_textures |-> keep_original_textures]
           parsed == ParseInt(ValueOf(args, FlagQuality))
           n == IF HasValue(args, FlagQuality) /\ parsed.ok
                THEN ApplyPreset(parsed.val, c) ELSE c
       IN  /\ ratio' = n.ratio
           /\ texture_size' = n.texture_size
           /\ texture_format' = n.texture_format
           /\ texture_quality' = n.texture_quality
           /\ keep_original_textures' = n.keep_original_textures
           /\ log' = IF HasValue(args, FlagQuality) /\ ~parsed.ok
                     THEN Append(log, "Invalid quality value") ELSE log
    /\ pc' = "ratio"
    /\ UNCHANGED <<genVars, shadeVars, tposeVars, texVars, originVars, sceneVars, runVars, exit_code, calls, pathVars, flagVars>>

\* lines 90-98: --ratio
ParseRatio ==
    /\ script = "convert"
    /\ pc = "ratio"
    /\ IF HasValue(args, FlagRatio)
       THEN IF ParseFloat(ValueOf(args, FlagRatio)).ok
            THEN /\ ratio' = ParseFloat(ValueOf(args, FlagRatio)).val
                 /\ pc' = "texture_size"
                 /\ UNCHANGED <<exit_code, log>>
            ELSE /\ Exit1("Invalid ratio value")
                 /\ UNCHANGED ratio
       ELSE /\ pc' = "texture_size"
            /\ UNCHANGED <<ratio, exit_code, log>>
    /\ UNCHANGED <<genVars, shadeVars, tposeVars, texVars, originVars, sceneVars, runVars, calls, pathVars, flagVars,
                   texture_size, texture_format, texture_quality,
                   keep_original_textures>>

\* ParseTextureSize ending the run on a bad value, as ParseRatio does
ParseTextureSizeAborting ==
    /\ script = "convert"
    /\ pc = "texture_size"
    /\ IF HasValue(args, FlagTextureSize)
       THEN IF ParseInt(ValueOf(args, FlagTextureSize)).ok
            THEN /\ texture_size' = ParseInt(ValueOf(args, FlagTextureSize)).val
                 /\ pc' = "normal_map_size"
                 /\ UNCHANGED <<exit_code, log>>
            ELSE /\ Exit1("Invalid texture size")
                 /\ UNCHANGED texture_size
       ELSE /\ pc' = "normal_map_size"
            /\ UNCHANGED <<texture_size, exit_code, log>>
    /\ UNCHANGED <<genVars, shadeVars, tposeVars, texVars, originVars, sceneVars, runVars, calls, pathVars, flagVars,
                   ratio, texture_format, texture_quality, keep_original_textures>>

\* lines 100-106: --texture-size
ParseTextureSize ==
    /\ script = "convert"
    /\ pc = "texture_size"
    /\ IF HasValue(args, FlagTextureSize)
       THEN IF ParseInt(ValueOf(args, FlagTextureSize)).ok
            THEN /\ texture_size' = ParseInt(ValueOf(args, FlagTextureSize)).val
                 /\ UNCHANGED log
            ELSE /\ log' = Append(log, "Invalid texture size")
                 /\ UNCHANGED texture_size
       ELSE UNCHANGED <<texture_size, log>>
    /\ pc' = "normal_map_size"
    /\ UNCHANGED <<genVars, shadeVars, tposeVars, texVars, originVars, sceneVars, runVars, exit_code, calls, pathVars, flagVars,
                   ratio, texture_format, texture_quality, keep_original_textures>>

\* lines 108-114: --normal-map-size
ParseNormalMapSize ==
    /\ script = "convert"
    /\ pc = "normal_map_size"
    /\ IF HasValue(args, FlagNormalMapSize)
       THEN IF ParseInt(ValueOf(args, FlagNormalMapSize)).ok
            THEN /\ normal_map_size' = Some(ParseInt(ValueOf(args, FlagNormalMapSize)).val)
                 /\ UNCHANGED log
            ELSE /\ log' = Append(log, "Invalid normal map size")
                 /\ UNCHANGED normal_map_size
       ELSE UNCHANGED <<normal_map_size, log>>
    /\ pc' = "texture_format"
    /\ UNCHANGED <<genVars, shadeVars, tposeVars, texVars, originVars, sceneVars, runVars, exit_code, calls, pathVars, presetVars,
                   use_webp_flag, remove_textures, fix_origin, apply_texture_path>>

\* ParseTextureFormat falling back to PNG on an unrecognised format
ParseTextureFormatDefaulting ==
    /\ script = "convert"
    /\ pc = "texture_format"
    /\ IF HasValue(args, FlagTextureFormat)
       THEN LET fmt == Upper(ValueOf(args, FlagTextureFormat))
            IN  IF fmt \in {PNG, JPEG}
                THEN /\ texture_format' = fmt
                     /\ UNCHANGED log
                ELSE /\ log' = Append(log, "Invalid texture format")
                     /\ texture_format' = PNG
       ELSE UNCHANGED <<texture_format, log>>
    /\ pc' = "texture_quality"
    /\ UNCHANGED <<genVars, shadeVars, tposeVars, texVars, originVars, sceneVars, runVars, exit_code, calls, pathVars, flagVars,
                   ratio, texture_size, texture_quality, keep_original_textures>>

\* lines 116-123: --texture-format
ParseTextureFormat ==
    /\ script = "convert"
    /\ pc = "texture_format"
    /\ IF HasValue(args, FlagTextureFormat)
       THEN LET fmt == Upper(ValueOf(args, FlagTextureFormat))
            IN  IF fmt \in {PNG, JPEG}
                THEN /\ texture_format' = fmt
                     /\ UNCHANGED log
                ELSE /\ log' = Append(log, "Invalid texture format")
                     /\ UNCHANGED texture_format
       ELSE UNCHANGED <<texture_format, log>>
    /\ pc' = "texture_quality"
    /\ UNCHANGED <<genVars, shadeVars, tposeVars, texVars, originVars, sceneVars, runVars, exit_code, calls, pathVars, flagVars,
                   ratio, texture_size, texture_quality, keep_original_textures>>

\* ClampQuality without the upper limit
ClampQualityBelowOnly(v) == IF v < 0 THEN 0 ELSE v

\* lines 130-133: the JPEG quality is kept within 0..100
ClampQuality(v) == IF v < 0 THEN 0 ELSE IF v > 100 THEN 100 ELSE v

\* lines 125-135: --texture-quality
ParseTextureQuality ==
    /\ script = "convert"
    /\ pc = "texture_quality"
    /\ IF HasValue(args, FlagTextureQuality)
       THEN IF ParseInt(ValueOf(args, FlagTextureQuality)).ok
            THEN /\ texture_quality' =
                        ClampQuality(ParseInt(ValueOf(args, FlagTextureQuality)).val)
                 /\ UNCHANGED log
            ELSE /\ log' = Append(log, "Invalid texture quality")
                 /\ UNCHANGED texture_quality
       ELSE UNCHANGED <<texture_quality, log>>
    /\ pc' = "flags"
    /\ UNCHANGED <<genVars, shadeVars, tposeVars, texVars, originVars, sceneVars, runVars, exit_code, calls, pathVars, flagVars,
                   ratio, texture_size, texture_format, keep_original_textures>>

\* lines 137-153: --remove-textures, --keep-original-textures,
\* --no-fix-origin, --apply-texture
ParseFlags ==
    /\ script = "convert"
    /\ pc = "flags"
    /\ remove_textures' = (In(args, FlagRemoveTextures) \/ remove_textures)
    /\ keep_original_textures' =
           IF In(args, FlagKeepOriginalTextures) THEN TRUE
           ELSE IF In(args, FlagRemoveTextures) THEN FALSE
           ELSE keep_original_textures
    /\ fix_origin' = IF In(args, FlagNoFixOrigin) THEN FALSE ELSE fix_origin
    /\ apply_texture_path' = IF HasValue(args, FlagApplyTexture)
                             THEN Some(ValueOf(args, FlagApplyTexture))
                             ELSE None
    /\ pc' = "normal_map_default"
    /\ UNCHANGED <<genVars, shadeVars, tposeVars, texVars, originVars, sceneVars, runVars, exit_code, log, calls, pathVars, use_webp_flag,
                   normal_map_size, ratio, texture_size, texture_format,
                   texture_quality>>

\* DefaultNormalMapSize falling back to the initial texture size
DefaultNormalMapSizeInitial(nms, ts) == IF nms = None THEN Some(512) ELSE nms

\* lines 155-157: the normal-map size when --normal-map-size set none
DefaultNormalMapSize(nms, ts) == IF nms = None THEN Some(ts) ELSE nms

\* lines 155-172: normal-map size default, then the settings are printed
ResolveNormalMapSize ==
    /\ script = "convert"
    /\ pc = "normal_map_default"
    /\ normal_map_size' = DefaultNormalMapSize(normal_map_size, texture_size)
    /\ pc' = "clean"
    /\ UNCHANGED <<genVars, shadeVars, tposeVars, texVars, originVars, sceneVars, runVars, exit_code, log, calls, pathVars, presetVars,
                   use_webp_flag, remove_textures, fix_origin, apply_texture_path>>

(***************************************************************************)
(* convert-low-poly.py: the pipeline                                       *)
(***************************************************************************)
cfgVars == <<pathVars, presetVars, flagVars, shadeVars, tposeVars, texVars, originVars, genVars>>

\* One call into the host API or one subprocess: the routine, the file path
\* it is given (if any) and the mesh it acts on (0: none).
Call(op) == [op |-> op, path |-> <<>>, obj |-> 0]

PathCall(op, p) == [op |-> op, path |-> p, obj |-> 0]

ObjCall(op, o) == [op |-> op, path |-> <<>>, obj |-> o]

MaxMeshes == 2

\* What a model file may hold: some mesh objects and possibly an armature.
Scenes == [meshes : 0..MaxMeshes, armature : BOOLEAN]

\* lines 174-176: clean the scene
CleanScene ==
    /\ script = "convert"
    /\ pc = "clean"
    /\ calls' = calls \o <<Call("object.select_all"), Call("object.delete")>>
    /\ pc' = "import"
    /\ UNCHANGED <<runVars, exit_code, log, cfgVars, sceneVars>>

\* ImportKind handing every extension but .fbx to the glTF importer
ImportKindGltfFallback(ext) ==
    IF ext = ExtFbx THEN "import_scene.fbx" ELSE "import_scene.gltf"

\* lines 179-186: the importer chosen for a lower-cased extension
ImportKind(ext) ==
    IF ext = ExtFbx THEN "import_scene.fbx"
    ELSE IF ext \in {ExtGlb, ExtGltf} THEN "import_scene.gltf"
    ELSE "unsupported"

\* lines 178-186: import the model
ImportModel ==
    /\ script = "convert"
    /\ pc = "import"
    /\ LET kind == ImportKind(Lower(SplitExt(input_path)[2]))
       IN  IF kind = "unsupported"
           THEN /\ Exit1("Unsupported file extension")
                /\ UNCHANGED <<calls, host_scene>>
           ELSE /\ calls' = Append(calls, PathCall(kind, input_path))
                /\ host_scene' \in Scenes
                /\ pc' = "animations"
                /\ UNCHANGED <<exit_code, log>>
    /\ UNCHANGED <<runVars, cfgVars, meshes, armature>>

\* lines 188-192: remove animations
RemoveAnimations ==
    /\ script = "convert"
    /\ pc = "animations"
    /\ calls' = Append(calls, Call("actions.remove"))
    /\ pc' = "find"
    /\ UNCHANGED <<runVars, exit_code, log, cfgVars, sceneVars>>

\* lines 194-207: find armature and meshes
FindObjects ==
    /\ script = "convert"
    /\ pc = "find"
    /\ armature' = host_scene.armature
    /\ meshes' = host_scene.meshes
    /\ pc' = "textures"
    /\ UNCHANGED <<runVars, exit_code, log, calls, cfgVars, host_scene>>

\* "if path:" for a path that is None or a string
Truthy(opt) == opt # None /\ opt[1] # <<>>

RECURSIVE AssignMaterial(_)
\* "for obj in meshes: obj.data.materials.clear(); ...append(mat)"
AssignMaterial(n) ==
    IF n = 0 THEN <<>>
    ELSE AssignMaterial(n - 1) \o
         <<ObjCall("materials.clear", n), ObjCall("materials.append", n)>>

\* lines 209-330: apply a texture, or resize / keep / remove the textures
ProcessTextures ==
    /\ script = "convert"
    /\ pc = "textures"
    /\ IF Truthy(apply_texture_path)
       THEN \E loaded \in BOOLEAN :
                IF loaded
                THEN /\ calls' = calls \o
                            <<Call("materials.new"),
                              PathCall("images.load", apply_texture_path[1]),
                              Call("images.remove_others")>> \o
                            AssignMaterial(meshes)
                     /\ log' = IF proceed_with_glb THEN log
                               ELSE Append(log, "[WARNING] For FBX export, the texture file must be present")
                     /\ pc' = "decimate"
                     /\ UNCHANGED exit_code
                ELSE /\ calls' = calls \o
                            <<Call("materials.new"),
                              PathCall("images.load", apply_texture_path[1])>>
                     /\ Exit1("[ERROR] Could not load image")
       ELSE /\ calls' = IF ~remove_textures
                        THEN IF ~keep_original_textures
                             THEN Append(calls, Call("images.scale"))
                             ELSE calls
                        ELSE calls \o
                             <<Call("materials.new"), Call("images.remove_all")>> \o
                             AssignMaterial(meshes)
            /\ pc' = "decimate"
            /\ UNCHANGED <<exit_code, log>>
    /\ UNCHANGED <<runVars, cfgVars, sceneVars>>

\* The body of the decimation loop leaving the smooth modifier unapplied
DecimateMeshUnapplied(n) ==
    <<ObjCall("mesh.remove_doubles", n),
      ObjCall("modifiers.new.DECIMATE", n),
      ObjCall("modifiers.new.SMOOTH", n),
      ObjCall("modifier_apply.Decimate", n)>>

\* lines 334-361: merge doubles, add the decimate and the smooth modifier,
\* apply both
DecimateMesh(n) ==
    <<ObjCall("mesh.remove_doubles", n),
      ObjCall("modifiers.new.DECIMATE", n),
      ObjCall("modifiers.new.SMOOTH", n),
      ObjCall("modifier_apply.Decimate", n),
      ObjCall("modifier_apply.Smooth", n)>>

RECURSIVE DecimateCalls(_)
\* lines 333-361: per mesh, merge doubles, then decimate and smooth, applied
DecimateCalls(n) ==
    IF n = 0 THEN <<>>
    ELSE DecimateCalls(n - 1) \o DecimateMesh(n)

\* lines 332-361: decimate all mesh objects
Decimate ==
    /\ script = "convert"
    /\ pc = "decimate"
    /\ calls' = calls \o DecimateCalls(meshes)
    /\ pc' = "origin"
    /\ UNCHANGED <<runVars, exit_code, log, cfgVars, sceneVars>>

RECURSIVE OriginCalls(_)
\* lines 396-404: origin of every mesh set to the cursor
OriginCalls(n) ==
    IF n = 0 THEN <<>>
    ELSE OriginCalls(n - 1) \o <<ObjCall("origin_set", n)>>

\* lines 363-406: fix the model origin
FixOrigin ==
    /\ script = "convert"
    /\ pc = "origin"
    /\ calls' = IF fix_origin /\ meshes > 0
                THEN calls \o <<Call("cursor.location")>> \o
                     (IF armature THEN <<Call("origin_set.armature")>> ELSE <<>>) \o
                     OriginCalls(meshes)
                ELSE calls
    /\ pc' = "export"
    /\ UNCHANGED <<runVars, exit_code, log, cfgVars, sceneVars>>

\* lines 408-465: export as GLB; a host that rejects the full settings
\* (TypeError) is called again with the basic ones
ExportGLB ==
    /\ script = "convert"
    /\ pc = "export"
    /\ proceed_with_glb
    /\ \E accepted \in BOOLEAN :
           /\ calls' = calls \o
                  <<Call("object.select_all"),
                    PathCall("export_scene.gltf", output_path)>> \o
                  (IF accepted THEN <<>>
                   ELSE <<PathCall("export_scene.gltf", output_path)>>)
           /\ log' = IF accepted THEN log
                     ELSE Append(log, "[WARNING] Using simplified export settings")
    /\ pc' = "origin_child"
    /\ UNCHANGED <<runVars, exit_code, cfgVars, sceneVars>>

\* FbxPathAccepted without stripping the path
FbxPathAcceptedUnstripped(p) == EndsWith(Lower(p), ExtFbx)

\* lines 512-513: the output path the FBX branch accepts
FbxPathAccepted(p) == EndsWith(Lower(Strip(p)), ExtFbx)

\* lines 508-518: export as FBX only
ExportFBX ==
    /\ script = "convert"
    /\ pc = "export"
    /\ ~proceed_with_glb
    /\ IF FbxPathAccepted(output_path)
       THEN /\ calls' = Append(calls, PathCall("export_scene.fbx", output_path))
            /\ pc' = "done"
            /\ exit_code' = Some(0)
            /\ UNCHANGED log
       ELSE /\ Exit1("[ERROR] Output path must end with .fbx")
            /\ UNCHANGED calls
    /\ UNCHANGED <<runVars, cfgVars, sceneVars>>

\* lines 467-481: run fix-origin-bottom.py on the exported file, when the
\* script lies beside this one
RunFixOriginChild ==
    /\ script = "convert"
    /\ pc = "origin_child"
    /\ \E outcome \in {"missing", "ok", "failed", "nolaunch"} :
           IF outcome = "missing"
           THEN /\ log' = Append(log, "[WARNING] fix-origin-bottom.py not found")
                /\ pc' = "webp"
                /\ UNCHANGED <<calls, exit_code>>
           ELSE /\ calls' = Append(calls, PathCall("subprocess.fix-origin-bottom", output_path))
                /\ IF outcome = "nolaunch"
                   THEN Uncaught("FileNotFoundError")
                   ELSE /\ log' = IF outcome = "failed"
                                  THEN Append(log, "[ERROR] fix-origin-bottom.py failed")
                                  ELSE log
                        /\ pc' = "webp"
                        /\ UNCHANGED exit_code
    /\ UNCHANGED <<runVars, cfgVars, sceneVars>>

\* lines 483-496: convert the textures to WebP with gltf-transform
RunWebp ==
    /\ script = "convert"
    /\ pc = "webp"
    /\ IF Lower(texture_format) = StrWebp \/ use_webp_flag
       THEN \E outcome \in {"ok", "failed", "nolaunch"} :
                /\ calls' = Append(calls, PathCall("subprocess.gltf-transform-webp", output_path))
                /\ log' = IF outcome = "failed"
                          THEN Append(log, "[ERROR] gltf-transform webp failed")
                          ELSE IF outcome = "nolaunch"
                          THEN Append(log, "[ERROR] Failed to run gltf-transform webp")
                          ELSE log
       ELSE UNCHANGED <<calls, log>>
    /\ pc' = "summary"
    /\ UNCHANGED <<runVars, exit_code, cfgVars, sceneVars>>

\* lines 498-507: final file size and reduction summary; the script ends
Summary ==
    /\ script = "convert"
    /\ pc = "summary"
    /\ pc' = "done"
    /\ exit_code' = Some(0)
    /\ UNCHANGED <<runVars, log, calls, cfgVars, sceneVars>>

(***************************************************************************)
(* apply-shaded-texture.py                                                 *)
(***************************************************************************)
\* line 18: light gray
DefaultColor == <<Rat(8, 10), Rat(8, 10), Rat(8, 10), Rat(10, 10)>>

\* line 23: the four tokens after --color all exist and all are floats
ColorGiven(a) ==
    /\ Index(a, FlagColor) + 4 <= Len(a)
    /\ \A i \in 1..4 : ParseFloat(a[Index(a, FlagColor) + i]).ok

\* lines 7-37: usage check, positional arguments, --color, --image
ShadedParseArgs ==
    /\ script = "shaded"
    /\ pc = "start"
    /\ IF ~hasSep
       THEN /\ Exit1("Usage")
            /\ UNCHANGED <<input_path, output_path, shadeVars>>
       ELSE IF Len(args) < 2
       THEN /\ Uncaught("IndexError")
            /\ UNCHANGED <<input_path, output_path, shadeVars>>
       ELSE /\ input_path' = args[1]
            /\ output_path' = args[2]
            /\ color' = IF In(args, FlagColor) /\ ColorGiven(args)
                        THEN [i \in 1..4 |-> ParseFloat(args[Index(args, FlagColor) + i]).val]
                        ELSE DefaultColor
            /\ log' = IF In(args, FlagColor) /\ ~ColorGiven(args)
                      THEN Append(log, "[WARNING] Invalid color values, using default.")
                      ELSE log
            /\ image_path' = IF HasValue(args, FlagImage)
                             THEN Some(ValueOf(args, FlagImage))
                             ELSE None
            /\ pc' = "clean"
            /\ UNCHANGED exit_code
    /\ UNCHANGED <<runVars, calls, proceed_with_glb, presetVars, flagVars, tposeVars, texVars, originVars,
                   sceneVars, genVars>>

\* lines 39-41: clean the scene
ShadedCleanScene ==
    /\ script = "shaded"
    /\ pc = "clean"
    /\ calls' = calls \o <<Call("object.select_all"), Call("object.delete")>>
    /\ pc' = "import"
    /\ UNCHANGED <<runVars, exit_code, log, cfgVars, sceneVars>>

\* lines 43-51: import the model
ShadedImport ==
    /\ script = "shaded"
    /\ pc = "import"
    /\ LET kind == ImportKind(Lower(SplitExt(input_path)[2]))
       IN  IF kind = "unsupported"
           THEN /\ Exit1("Unsupported file extension")
                /\ UNCHANGED <<calls, host_scene>>
           ELSE /\ calls' = Append(calls, PathCall(kind, input_path))
                /\ host_scene' \in Scenes
                /\ pc' = "find"
                /\ UNCHANGED <<exit_code, log>>
    /\ UNCHANGED <<runVars, cfgVars, meshes, armature>>

\* lines 53-55: find all mesh objects
ShadedFindMeshes ==
    /\ script = "shaded"
    /\ pc = "find"
    /\ meshes' = host_scene.meshes
    /\ pc' = "material"
    /\ UNCHANGED <<runVars, exit_code, log, calls, cfgVars, host_scene, armature>>

\* lines 57-109: create the material (image-fed or flat) and assign it
ShadedMaterial ==
    /\ script = "shaded"
    /\ pc = "material"
    /\ IF Truthy(image_path)
       THEN \E loaded \in BOOLEAN :
                IF loaded
                THEN /\ calls' = calls \o
                            <<Call("materials.new"),
                              PathCall("images.load", image_path[1]),
                              Call("images.remove_others")>> \o
                            AssignMaterial(meshes)
                     /\ pc' = "export"
                     /\ UNCHANGED <<exit_code, log>>
                ELSE /\ calls' = calls \o
                            <<Call("materials.new"),
                              PathCall("images.load", image_path[1])>>
                     /\ Exit1("[ERROR] Could not load image")
       ELSE /\ calls' = calls \o
                   <<Call("materials.new"), Call("images.remove_all")>> \o
                   AssignMaterial(meshes)
            /\ pc' = "export"
            /\ UNCHANGED <<exit_code, log>>
    /\ UNCHANGED <<runVars, cfgVars, sceneVars>>

\* ExportKind handing every path but .fbx to the GLTF exporter
ExportKindGltfFallback(p) ==
    IF EndsWith(Lower(p), ExtFbx) THEN "export_scene.fbx" ELSE "export_scene.gltf"

\* lines 112-120: the exporter chosen for an output path
ExportKind(p) ==
    IF EndsWith(Lower(p), ExtFbx) THEN "export_scene.fbx"
    ELSE IF EndsWith(Lower(p), ExtGlb) \/ EndsWith(Lower(p), ExtGltf)
    THEN "export_scene.gltf"
    ELSE "unsupported"

\* lines 111-120: export the model
ShadedExport ==
    /\ script = "shaded"
    /\ pc = "export"
    /\ IF ExportKind(output_path) = "unsupported"
       THEN /\ Exit1("[ERROR] Unsupported export format")
            /\ UNCHANGED calls
       ELSE /\ calls' = Append(calls, PathCall(ExportKind(output_path), output_path))
            /\ pc' = "done"
            /\ exit_code' = Some(0)
            /\ UNCHANGED log
    /\ UNCHANGED <<runVars, cfgVars, sceneVars>>

(***************************************************************************)
(* fix-origin-bottom.py                                                    *)
(***************************************************************************)
\* lines 8-16: usage check and positional arguments
FixParseArgs ==
    /\ script = "fixorigin"
    /\ pc = "start"
    /\ IF ~hasSep
       THEN /\ Exit1("Usage")
            /\ UNCHANGED <<input_path, output_path>>
       ELSE IF Len(args) < 2
       THEN /\ Uncaught("IndexError")
            /\ UNCHANGED <<input_path, output_path>>
       ELSE /\ input_path' = args[1]
            /\ output_path' = args[2]
            /\ pc' = "clean"
            /\ UNCHANGED <<exit_code, log>>
    /\ UNCHANGED <<runVars, calls, proceed_with_glb, presetVars, flagVars,
                   shadeVars, tposeVars, texVars, originVars, sceneVars, genVars>>

\* lines 18-21: clear the existing scene
FixCleanScene ==
    /\ script = "fixorigin"
    /\ pc = "clean"
    /\ calls' = calls \o <<Call("object.select_all"), Call("object.delete")>>
    /\ pc' = "import"
    /\ UNCHANGED <<runVars, exit_code, log, cfgVars, sceneVars>>

\* lines 23-34: import the model
FixImport ==
    /\ script = "fixorigin"
    /\ pc = "import"
    /\ LET kind == ImportKind(Lower(SplitExt(input_path)[2]))
       IN  IF kind = "unsupported"
           THEN /\ Exit1("Unsupported file extension")
                /\ UNCHANGED <<calls, host_scene>>
           ELSE /\ calls' = Append(calls, PathCall(kind, input_path))
                /\ host_scene' \in Scenes
                /\ pc' = "locate"
                /\ UNCHANGED <<exit_code, log>>
    /\ UNCHANGED <<runVars, cfgVars, meshes, armature>>

\* lines 36-68: tidy the hierarchy, then locate the mesh and the armature
FixLocate ==
    /\ script = "fixorigin"
    /\ pc = "locate"
    /\ meshes' = IF host_scene.meshes > 0 THEN 1 ELSE 0
    /\ armature' = host_scene.armature
    /\ IF host_scene.meshes = 0
       THEN Exit1("No mesh found!")
       ELSE /\ pc' = "origin"
            /\ UNCHANGED <<exit_code, log>>
    /\ UNCHANGED <<runVars, calls, cfgVars, host_scene>>

\* lines 70-131: apply the transforms, then set the origins to the bottom
\* centre of the mesh's bounding box
FixSetOrigin ==
    /\ script = "fixorigin"
    /\ pc = "origin"
    /\ calls' = calls \o
           (IF armature THEN <<Call("transform_apply.armature")>> ELSE <<>>) \o
           <<ObjCall("transform_apply", 1), Call("cursor.location")>> \o
           (IF armature THEN <<Call("origin_set.armature")>> ELSE <<>>) \o
           <<ObjCall("origin_set", 1)>>
    /\ pc' = "export"
    /\ UNCHANGED <<runVars, exit_code, log, cfgVars, sceneVars>>

\* lines 133-145: export to the output path, always as GLB
FixExport ==
    /\ script = "fixorigin"
    /\ pc = "export"
    /\ calls' = Append(calls, PathCall("export_scene.gltf", output_path))
    /\ pc' = "done"
    /\ exit_code' = Some(0)
    /\ UNCHANGED <<runVars, log, cfgVars, sceneVars>>

(***************************************************************************)
(* blender_prepare_tpose.py                                                *)
(***************************************************************************)
\* lines 6-18: usage check, positional arguments, --preserve-animations
TposeParseArgs ==
    /\ script = "tpose"
    /\ pc = "start"
    /\ IF ~hasSep
       THEN /\ Uncaught("RuntimeError")
            /\ UNCHANGED <<input_path, output_path, preserve_animations>>
       ELSE IF Len(args) < 2
       THEN /\ Uncaught("IndexError")
            /\ UNCHANGED <<input_path, output_path, preserve_animations>>
       ELSE /\ input_path' = args[1]
            /\ output_path' = args[2]
            /\ preserve_animations' =
                   (Len(args) > 2 /\ args[3] = FlagPreserveAnimations)
            /\ pc' = "clean"
            /\ UNCHANGED <<exit_code, log>>
    /\ UNCHANGED <<runVars, calls, proceed_with_glb, presetVars, flagVars,
                   shadeVars, texVars, originVars, sceneVars, genVars>>

\* lines 20-23: clear the existing scene
TposeCleanScene ==
    /\ script = "tpose"
    /\ pc = "clean"
    /\ calls' = calls \o <<Call("object.select_all"), Call("object.delete")>>
    /\ pc' = "import"
    /\ UNCHANGED <<runVars, exit_code, log, cfgVars, sceneVars>>

\* lines 25-35: import the model
TposeImport ==
    /\ script = "tpose"
    /\ pc = "import"
    /\ LET kind == ImportKind(Lower(SplitExt(input_path)[2]))
       IN  IF kind = "unsupported"
           THEN /\ Uncaught("RuntimeError")
                /\ UNCHANGED <<calls, host_scene>>
           ELSE /\ calls' = Append(calls, PathCall(kind, input_path))
                /\ host_scene' \in Scenes
                /\ pc' = "locate"
                /\ UNCHANGED <<exit_code, log>>
    /\ UNCHANGED <<runVars, cfgVars, meshes, armature>>

\* lines 37-85: tidy the hierarchy, then locate the mesh and the armature
TposeLocate ==
    /\ script = "tpose"
    /\ pc = "locate"
    /\ meshes' = IF host_scene.meshes > 0 THEN 1 ELSE 0
    /\ armature' = host_scene.armature
    /\ IF host_scene.meshes = 0
       THEN Uncaught("RuntimeError")
       ELSE /\ pc' = "origin"
            /\ UNCHANGED <<exit_code, log>>
    /\ UNCHANGED <<runVars, calls, cfgVars, host_scene>>

\* lines 87-194: parent the mesh to the armature, apply the transforms, then
\* set the origins to the bottom centre of the mesh's bounding box
TposeSetOrigin ==
    /\ script = "tpose"
    /\ pc = "origin"
    /\ calls' = calls \o
           (IF armature THEN <<Call("transform_apply.armature")>> ELSE <<>>) \o
           <<ObjCall("transform_apply", 1), Call("cursor.location")>> \o
           (IF armature THEN <<Call("origin_set.armature")>> ELSE <<>>) \o
           <<ObjCall("origin_set", 1)>>
    /\ pc' = "export"
    /\ UNCHANGED <<runVars, exit_code, log, cfgVars, sceneVars>>

\* lines 196-236: export to the output path, always as GLB, then print the
\* final bounding box
TposeExport ==
    /\ script = "tpose"
    /\ pc = "export"
    /\ calls' = Append(calls, PathCall("export_scene.gltf", output_path))
    /\ pc' = "done"
    /\ exit_code' = Some(0)
    /\ UNCHANGED <<runVars, log, cfgVars, sceneVars>>

(***************************************************************************)
(* generate_lod_performance_scene.py                                       *)
(***************************************************************************)
hostVars == <<exit_code, log, calls, pathVars, presetVars, flagVars, shadeVars, tposeVars, texVars, originVars,
              sceneVars>>

\* lines 22, 47, 82: the number of grid entities
EntityCount == 1000

\* int(math.sqrt(n))
ISqrt(n) == CHOOSE r \in 0..n : r * r <= n /\ (r + 1) * (r + 1) > n

\* lines 27-39: the camera
CameraEntity ==
    [id |-> 0,
     name |-> <<"camera">>,
     components |->
        [Camera |-> [position |-> <<0, 5, 30>>, rotation |-> <<0, 0, 0, 1>>,
                     fov |-> 60, near |-> Rat(1, 10), far |-> 1000]]]

\* lines 50-77: the grid entity numbered id at column gx, row gz of a grid
\* of side gs
GridEntity(id, gx, gz, gs) ==
    [id |-> id,
     name |-> <<"lod_entity_", id>>,
     components |->
        [Transform |->
            [position |-> <<Rat(4 * gx - 2 * gs + (gx % 3), 2),
                            Rat((gx + gz) % 3, 2),
                            Rat(4 * gz - 2 * gs + (gz % 3), 2)>>,
             rotation |-> <<0, 0, 0, 1>>,
             scale |-> <<1, 1, 1>>],
         MeshRenderer |->
            [mesh_path |-> <<"models/performance_obj_", id % 10, ".glb">>,
             material_path |-> <<"materials/default.json">>],
         LODComponent |->
            [path |-> <<"models/performance_obj_", id % 10, ".glb">>,
             high_quality_path |-> <<"models/lod/performance_obj_", id % 10, "_high.glb">>,
             low_quality_path |-> <<"models/lod/performance_obj_", id % 10, "_low.glb">>,
             distance_thresholds |-> <<5 + (id % 5), 15 + (id % 10)>>,
             quality_override |-> None,
             current_quality |-> <<"Original">>]]]

\* lines 10-45: the document with the camera, the counters, the first column
GenStart ==
    /\ script = "generator"
    /\ pc = "start"
    /\ scene' = [name |-> <<"testlod-performance">>,
                 version |-> <<"1.0">>,
                 entities |-> <<CameraEntity>>,
                 metadata |-> [description |-> <<"LOD performance test scene with 1000+ entities">>,
                               test_cases |-> 4,
                               entity_count |-> EntityCount]]
    /\ entity_id' = 1
    /\ grid_size' = ISqrt(EntityCount) + 1
    /\ x' = 0
    /\ z' = 0
    /\ pc' = IF ISqrt(EntityCount) + 1 > 0 THEN "inner" ELSE "return"
    /\ UNCHANGED <<runVars, hostVars>>

\* InnerGoesOn breaking one entity early
InnerGoesOnEarlyBreak == z < grid_size /\ ~(entity_id >= EntityCount)

\* lines 47-48: the inner loop goes on when a row is left and the count is
\* not reached
InnerGoesOn == z < grid_size /\ ~(entity_id > EntityCount)

\* lines 46-80: one pass of the inner loop
GenEntity ==
    /\ script = "generator"
    /\ pc = "inner"
    /\ InnerGoesOn
    /\ scene' = [scene EXCEPT !.entities =
                    Append(@, GridEntity(entity_id, x, z, grid_size))]
    /\ entity_id' = entity_id + 1
    /\ z' = z + 1
    /\ UNCHANGED <<runVars, hostVars, pc, grid_size, x>>

\* lines 45-48, 82-83: the inner loop ends (rows exhausted, or break); the
\* outer loop breaks, ends, or goes to the next column
GenNextColumn ==
    /\ script = "generator"
    /\ pc = "inner"
    /\ ~InnerGoesOn
    /\ IF entity_id > EntityCount \/ x + 1 >= grid_size
       THEN /\ pc' = "return"
            /\ UNCHANGED <<x, z>>
       ELSE /\ x' = x + 1
            /\ z' = 0
            /\ UNCHANGED pc
    /\ UNCHANGED <<runVars, hostVars, scene, entity_id, grid_size>>

\* line 85: return scene
GenReturn ==
    /\ script = "generator"
    /\ pc = "return"
    /\ pc' = "returned"
    /\ UNCHANGED <<runVars, hostVars, genVars>>

(***************************************************************************)
(* convert-low-poly.py: the texture classification and resize pass          *)
(***************************************************************************)
\* The shader nodes of bpy.data.materials in the order the two loops of
\* lines 255-257 visit them. A node carries use_nodes of its material, its
\* type, its image (0: none) and, per output socket, the types of the nodes
\* its links lead to.
Node(u, t, img, outs) ==
    [use_nodes |-> u, type |-> t, image |-> img, outputs |-> outs]

\* An image of bpy.data.images: size[0], size[1], has_data, file_format
Image(w, h, d) == [w |-> w, h |-> h, has_data |-> d, file_format |-> "JPEG"]

\* lines 256-258: "if mat.use_nodes" ... "if node.type == 'TEX_IMAGE' and node.image"
HoldsImage(n) == n.use_nodes /\ n.type = "TEX_IMAGE" /\ n.image # 0

\* lines 262-263: some link of the output leads to a normal-map node
LinkedToNormalMap(output) ==
    \E k \in 1..Len(output) : output[k] = "NORMAL_MAP"

RECURSIVE NormalMapAppends(_, _)
\* lines 261-266: one append for every output with such a link, the break
\* leaving the loop over the links only
NormalMapAppends(outputs, img) ==
    IF outputs = <<>> THEN <<>>
    ELSE (IF LinkedToNormalMap(Head(outputs)) THEN <<img>> ELSE <<>>) \o
         NormalMapAppends(Tail(outputs), img)

\* lines 255-268: one node of the first pass, or the end of the pass
ClassifyNode ==
    /\ script = "convert"
    /\ pc = "classify"
    /\ IF tex_i <= Len(nodes)
       THEN /\ LET node == nodes[tex_i]
                   found == NormalMapAppends(node.outputs, node.image)
               IN  IF HoldsImage(node)
                   THEN /\ normal_maps' = normal_maps \o found
                        /\ regular_textures' =
                               IF found = <<>>
                               THEN Append(regular_textures, node.image)
                               ELSE regular_textures
                   ELSE UNCHANGED <<normal_maps, regular_textures>>
            /\ tex_i' = tex_i + 1
            /\ UNCHANGED pc
       ELSE /\ pc' = "resize_normal_maps"
            /\ tex_i' = 1
            /\ UNCHANGED <<normal_maps, regular_textures>>
    /\ UNCHANGED <<runVars, exit_code, log, calls, pathVars, presetVars,
                   flagVars, shadeVars, tposeVars, originVars, genVars, sceneVars,
                   nodes, images, images_before, materials, tex_mat>>

\* lines 272-274, 284-286, 292-294: the image is neither skipped for having
\* no data nor for being within the target already
TooLarge(img, size) ==
    /\ img.has_data /\ img.w > 0 /\ img.h > 0
    /\ ~(img.w <= size /\ img.h <= size)

\* "img.scale(size, size)"
Scale(img, size) == [img EXCEPT !.w = size, !.h = size]

\* lines 271-279: one image of normal_maps, or the end of the loop
ResizeNormalMap ==
    /\ script = "convert"
    /\ pc = "resize_normal_maps"
    /\ IF tex_i <= Len(normal_maps)
       THEN /\ LET id == normal_maps[tex_i]
                   size == normal_map_size[1]
               IN  IF TooLarge(images[id], size)
                   THEN /\ images' = [images EXCEPT ![id] =
                               [Scale(@, size) EXCEPT !.file_format = "PNG"]]
                        /\ calls' = Append(calls, ObjCall("image.scale", id))
                   ELSE UNCHANGED <<images, calls>>
            /\ tex_i' = tex_i + 1
            /\ UNCHANGED pc
       ELSE /\ pc' = "resize_regular_textures"
            /\ tex_i' = 1
            /\ UNCHANGED <<images, calls>>
    /\ UNCHANGED <<runVars, exit_code, log, pathVars, presetVars, flagVars,
                   shadeVars, tposeVars, originVars, genVars, sceneVars, nodes,
                   images_before, normal_maps, regular_textures, materials,
                   tex_mat>>

\* lines 282-288: one image of regular_textures, or the end of the loop
ResizeRegularTexture ==
    /\ script = "convert"
    /\ pc = "resize_regular_textures"
    /\ IF tex_i <= Len(regular_textures)
       THEN /\ LET id == regular_textures[tex_i]
               IN  IF TooLarge(images[id], texture_size)
                   THEN /\ images' = [images EXCEPT ![id] = Scale(@, texture_size)]
                        /\ calls' = Append(calls, ObjCall("image.scale", id))
                   ELSE UNCHANGED <<images, calls>>
            /\ tex_i' = tex_i + 1
            /\ UNCHANGED pc
       ELSE /\ pc' = "resize_other_images"
            /\ tex_i' = 1
            /\ UNCHANGED <<images, calls>>
    /\ UNCHANGED <<runVars, exit_code, log, pathVars, presetVars, flagVars,
                   shadeVars, tposeVars, originVars, genVars, sceneVars, nodes,
                   images_before, normal_maps, regular_textures, materials,
                   tex_mat>>

\* "img in normal_maps", "img in regular_textures"
Holds(list, id) == \E k \in 1..Len(list) : list[k] = id

\* lines 291-297: one image of bpy.data.images, or the end of the pass
ResizeOtherImage ==
    /\ script = "convert"
    /\ pc = "resize_other_images"
    /\ IF tex_i <= Len(images)
       THEN /\ IF /\ ~Holds(normal_maps, tex_i)
                  /\ ~Holds(regular_textures, tex_i)
                  /\ TooLarge(images[tex_i], texture_size)
               THEN /\ images' = [images EXCEPT ![tex_i] = Scale(@, texture_size)]
                    /\ calls' = Append(calls, ObjCall("image.scale", tex_i))
               ELSE UNCHANGED <<images, calls>>
            /\ tex_i' = tex_i + 1
            /\ UNCHANGED pc
       ELSE /\ pc' = "decimate"
            /\ UNCHANGED <<images, calls, tex_i>>
    /\ UNCHANGED <<runVars, exit_code, log, pathVars, presetVars, flagVars,
                   shadeVars, tposeVars, originVars, genVars, sceneVars, nodes,
                   images_before, normal_maps, regular_textures, materials,
                   tex_mat>>

(***************************************************************************)
(* convert-low-poly.py, apply-shaded-texture.py: the material replacement  *)
(* loop by loop                                                            *)
(***************************************************************************)
\* The material slots a mesh can have after the import
ImportedSlots == {<<>>, <<"Imported">>, <<"Imported", "Imported.001">>}

\* bpy.data.images after the import, by the number of the image
ImportedImages == {<<>>, <<1>>, <<1, 2>>}

\* A material the script builds: its name and the image of its image-texture
\* node (0: it has none)
Material(name, img) == [name |-> name, image |-> img]

\* "obj.data.materials.clear(); obj.data.materials.append(mat)" without the clear
AppendWithoutClear(slots, mat) == Append(slots, mat)

\* "obj.data.materials.clear(); obj.data.materials.append(mat)"
ClearAndAppend(slots, mat) == <<mat>>

\* bpy.data.images.remove of the image at position i
RemoveAt(s, i) == SubSeq(s, 1, i - 1) \o SubSeq(s, i + 1, Len(s))

\* convert-low-poly.py lines 210-225 and 303-318: the scene as the import left
\* it, and the new material built (the image loaded, or not), or neither
\* --apply-texture nor --remove-textures (lines 247-301)
BuildMaterial ==
    /\ script = "convert"
    /\ pc = "textures"
    /\ \E slots \in [1..meshes -> ImportedSlots], imgs \in ImportedImages :
           /\ materials' = slots
           /\ IF Truthy(apply_texture_path)
              THEN /\ calls' = calls \o
                           <<Call("materials.new"),
                             PathCall("images.load", apply_texture_path[1])>>
                   /\ \E loaded \in BOOLEAN :
                          IF loaded
                          THEN /\ images' = Append(imgs, Len(imgs) + 1)
                               /\ tex_mat' = Material("ImageTextureMaterial", Len(imgs) + 1)
                               /\ pc' = "remove_images"
                               /\ tex_i' = 1
                               /\ UNCHANGED <<exit_code, log>>
                          ELSE /\ images' = imgs
                               /\ tex_mat' = Material("ImageTextureMaterial", 0)
                               /\ Exit1("[ERROR] Could not load image")
                               /\ UNCHANGED tex_i
              ELSE IF remove_textures
              THEN /\ calls' = Append(calls, Call("materials.new"))
                   /\ images' = imgs
                   /\ tex_mat' = Material("SimpleMaterial", 0)
                   /\ pc' = "remove_images"
                   /\ tex_i' = 1
                   /\ UNCHANGED <<exit_code, log>>
              ELSE /\ calls' = IF ~keep_original_textures
                               THEN Append(calls, Call("images.scale"))
                               ELSE calls
                   /\ images' = imgs
                   /\ pc' = "decimate"
                   /\ UNCHANGED <<exit_code, log, tex_mat, tex_i>>
    /\ UNCHANGED <<runVars, pathVars, presetVars, flagVars, shadeVars,
                   tposeVars, originVars, genVars, sceneVars, nodes, images_before,
                   normal_maps, regular_textures>>

\* apply-shaded-texture.py lines 58-75 and 90-98: the same for --image or the
\* flat colour
ShadedBuildMaterial ==
    /\ script = "shaded"
    /\ pc = "material"
    /\ \E slots \in [1..meshes -> ImportedSlots], imgs \in ImportedImages :
           /\ materials' = slots
           /\ IF Truthy(image_path)
              THEN /\ calls' = calls \o
                           <<Call("materials.new"),
                             PathCall("images.load", image_path[1])>>
                   /\ \E loaded \in BOOLEAN :
                          IF loaded
                          THEN /\ images' = Append(imgs, Len(imgs) + 1)
                               /\ tex_mat' = Material("ImageTextureMaterial", Len(imgs) + 1)
                               /\ pc' = "remove_images"
                               /\ tex_i' = 1
                               /\ UNCHANGED <<exit_code, log>>
                          ELSE /\ images' = imgs
                               /\ tex_mat' = Material("ImageTextureMaterial", 0)
                               /\ Exit1("[ERROR] Could not load image")
                               /\ UNCHANGED tex_i
              ELSE /\ calls' = Append(calls, Call("materials.new"))
                   /\ images' = imgs
                   /\ tex_mat' = Material("ShadedMaterial", 0)
                   /\ pc' = "remove_images"
                   /\ tex_i' = 1
                   /\ UNCHANGED <<exit_code, log>>
    /\ UNCHANGED <<runVars, pathVars, presetVars, flagVars, shadeVars,
                   tposeVars, originVars, genVars, sceneVars, nodes, images_before,
                   normal_maps, regular_textures>>

\* convert-low-poly.py lines 234-236, 320-322: "for img in bpy.data.images: ...
\* bpy.data.images.remove(img)", one image or the end of the loop. The host's
\* iterator has moved on to the next image before the body runs, so the image
\* that follows a removed one is visited.
ConvertRemoveImage ==
    /\ script = "convert"
    /\ pc = "remove_images"
    /\ IF tex_i <= Len(images)
       THEN /\ IF tex_mat.image # 0 /\ images[tex_i] = tex_mat.image
               THEN /\ tex_i' = tex_i + 1
                    /\ UNCHANGED <<images, calls>>
               ELSE /\ images' = RemoveAt(images, tex_i)
                    /\ calls' = Append(calls, ObjCall("images.remove", images[tex_i]))
                    /\ UNCHANGED tex_i
            /\ UNCHANGED pc
       ELSE /\ pc' = "assign_material"
            /\ tex_i' = 1
            /\ UNCHANGED <<images, calls>>
    /\ UNCHANGED <<runVars, exit_code, log, pathVars, presetVars, flagVars,
                   shadeVars, tposeVars, originVars, genVars, sceneVars, nodes,
                   images_before, normal_maps, regular_textures, materials,
                   tex_mat>>

\* convert-low-poly.py lines 238-245, 324-330: "for obj in meshes: clear(); append(mat)",
\* one mesh, or the end of the loop with the warning of the image branch when
\* the export will be FBX
ConvertAssignMaterial ==
    /\ script = "convert"
    /\ pc = "assign_material"
    /\ IF tex_i <= meshes
       THEN /\ materials' = [materials EXCEPT
                                 ![tex_i] = ClearAndAppend(@, tex_mat.name)]
            /\ calls' = calls \o <<ObjCall("materials.clear", tex_i),
                                   ObjCall("materials.append", tex_i)>>
            /\ tex_i' = tex_i + 1
            /\ UNCHANGED <<pc, log>>
       ELSE /\ log' = IF tex_mat.image # 0 /\ ~proceed_with_glb
                      THEN Append(log, "[WARNING] For FBX export, the texture file must be present")
                      ELSE log
            /\ pc' = "decimate"
            /\ UNCHANGED <<materials, calls, tex_i>>
    /\ UNCHANGED <<runVars, exit_code, pathVars, presetVars, flagVars,
                   shadeVars, tposeVars, originVars, genVars, sceneVars, nodes, images,
                   images_before, normal_maps, regular_textures, tex_mat>>

\* apply-shaded-texture.py lines 82-84, 99-100: "for img in bpy.data.images: ...
\* bpy.data.images.remove(img)", one image or the end of the loop. The host's
\* iterator has moved on to the next image before the body runs, so the image
\* that follows a removed one is visited.
ShadedRemoveImage ==
    /\ script = "shaded"
    /\ pc = "remove_images"
    /\ IF tex_i <= Len(images)
       THEN /\ IF tex_mat.image # 0 /\ images[tex_i] = tex_mat.image
               THEN /\ tex_i' = tex_i + 1
                    /\ UNCHANGED <<images, calls>>
               ELSE /\ images' = RemoveAt(images, tex_i)
                    /\ calls' = Append(calls, ObjCall("images.remove", images[tex_i]))
                    /\ UNCHANGED tex_i
            /\ UNCHANGED pc
       ELSE /\ pc' = "assign_material"
            /\ tex_i' = 1
            /\ UNCHANGED <<images, calls>>
    /\ UNCHANGED <<runVars, exit_code, log, pathVars, presetVars, flagVars,
                   shadeVars, tposeVars, originVars, genVars, sceneVars, nodes,
                   images_before, normal_maps, regular_textures, materials,
                   tex_mat>>

\* apply-shaded-texture.py lines 86-89, 101-104: "for obj in meshes: clear();
\* append(mat)", one mesh or the end of the loop
ShadedAssignMaterial ==
    /\ script = "shaded"
    /\ pc = "assign_material"
    /\ IF tex_i <= meshes
       THEN /\ materials' = [materials EXCEPT
                                 ![tex_i] = ClearAndAppend(@, tex_mat.name)]
            /\ calls' = calls \o <<ObjCall("materials.clear", tex_i),
                                   ObjCall("materials.append", tex_i)>>
            /\ tex_i' = tex_i + 1
            /\ UNCHANGED <<pc, log>>
       ELSE /\ log' = log
            /\ pc' = "export"
            /\ UNCHANGED <<materials, calls, tex_i>>
    /\ UNCHANGED <<runVars, exit_code, pathVars, presetVars, flagVars,
                   shadeVars, tposeVars, originVars, genVars, sceneVars, nodes, images,
                   images_before, normal_maps, regular_textures, tex_mat>>

(***************************************************************************)
(* convert-low-poly.py: the origin fix, object by object                   *)
(***************************************************************************)
\* A vector of exact floats
Vec(a, b, c) == <<Rat(a, 1), Rat(b, 1), Rat(c, 1)>>

\* "(0.0, 0.0, 0.0)"
WorldOrigin == Vec(0, 0, 0)

\* obj.bound_box: the eight corners of the box between lo and hi
BoundBox(lo, hi) ==
    <<<<lo[1], lo[2], lo[3]>>, <<lo[1], lo[2], hi[3]>>,
      <<lo[1], hi[2], hi[3]>>, <<lo[1], hi[2], lo[3]>>,
      <<hi[1], lo[2], lo[3]>>, <<hi[1], lo[2], hi[3]>>,
      <<hi[1], hi[2], hi[3]>>, <<hi[1], hi[2], lo[3]>>>>

\* A mesh object: len(obj.data.vertices), obj.bound_box as line 372 reads it,
\* the type of obj.parent ("NONE": no parent), obj.location, and where its
\* origin is
MeshObject(n, box, parent, loc) ==
    [vertices |-> n, bound_box |-> box, parent |-> parent, location |-> loc,
     origin |-> loc]

\* The armature object
ArmatureObject(loc) == [location |-> loc, origin |-> loc]

\* max(meshes, key=...) keeping the last of several largest meshes
MainMeshLastOnTies(ms) ==
    IF Len(ms) > 1
    THEN CHOOSE i \in 1..Len(ms) :
             /\ \A j \in 1..Len(ms) : ms[j].vertices <= ms[i].vertices
             /\ \A j \in (i + 1)..Len(ms) : ms[j].vertices < ms[i].vertices
    ELSE 1

\* lines 366-369: meshes[0], or with several meshes max(meshes, key=...), the
\* first of the meshes with the most vertices
MainMesh(ms) ==
    IF Len(ms) > 1
    THEN CHOOSE i \in 1..Len(ms) :
             /\ \A j \in 1..Len(ms) : ms[j].vertices <= ms[i].vertices
             /\ \A j \in 1..(i - 1) : ms[j].vertices < ms[i].vertices
    ELSE 1

\* min(xs), max(xs) over the corners of a box, for the axis k
MinOf(box, k) == CHOOSE v \in {box[c][k] : c \in 1..Len(box)} :
                     \A c \in 1..Len(box) : v <= box[c][k]

MaxOf(box, k) == CHOOSE v \in {box[c][k] : c \in 1..Len(box)} :
                     \A c \in 1..Len(box) : v >= box[c][k]

\* lines 372-379: (center_x, center_y, min_z), the halves kept as tenths
BottomCenter(box) ==
    <<Rat(5 * (MinOf(box, 1) + MaxOf(box, 1)), 10),
      Rat(5 * (MinOf(box, 2) + MaxOf(box, 2)), 10),
      Rat(MinOf(box, 3), 1)>>

\* The boxes, parents and places a mesh can come with
MeshObjects(arm) ==
    {MeshObject(n, box, parent, Vec(1, 2, 3)) :
        n \in {4, 8},
        box \in {BoundBox(<<0, 0, 0>>, <<2, 2, 2>>),
                 BoundBox(<<0 - 1, 0 - 3, 1>>, <<2, 0, 4>>)},
        parent \in IF arm THEN {"NONE", "ARMATURE", "EMPTY"}
                   ELSE {"NONE", "EMPTY"}}

\* lines 364-382: the objects as decimation left them; the cursor put at the
\* bottom centre of the main mesh's bounding box, or no origin fix at all
SetCursor ==
    /\ script = "convert"
    /\ pc = "origin"
    /\ IF fix_origin /\ meshes > 0
       THEN /\ \E ms \in [1..meshes -> MeshObjects(armature)] :
                   /\ objects' = [armature |-> IF armature
                                               THEN Some(ArmatureObject(Vec(0, 0, 5)))
                                               ELSE None,
                                  meshes |-> ms]
                   /\ cursor' = BottomCenter(ms[MainMesh(ms)].bound_box)
            /\ calls' = Append(calls, Call("cursor.location"))
            /\ pc' = "origin_armature"
       ELSE /\ pc' = "export"
            /\ UNCHANGED <<objects, cursor, calls>>
    /\ UNCHANGED <<runVars, exit_code, log, pathVars, presetVars, flagVars,
                   shadeVars, tposeVars, texVars, genVars, sceneVars, obj_i>>

\* lines 385-392: the armature's origin set to the cursor and the armature
\* moved to the world origin
OriginArmature ==
    /\ script = "convert"
    /\ pc = "origin_armature"
    /\ IF armature
       THEN /\ objects' = [objects EXCEPT !.armature =
                               Some([origin |-> cursor, location |-> WorldOrigin])]
            /\ calls' = calls \o <<Call("origin_set.armature"),
                                   Call("location.armature")>>
       ELSE UNCHANGED <<objects, calls>>
    /\ pc' = "origin_meshes"
    /\ obj_i' = 1
    /\ UNCHANGED <<runVars, exit_code, log, pathVars, presetVars, flagVars,
                   shadeVars, tposeVars, texVars, genVars, sceneVars, cursor>>

\* lines 395-404: one mesh of the loop, its origin set to the cursor (which
\* makes the cursor its location) and, unless its parent is an armature, its
\* location assigned; or the end of the loop
OriginMesh ==
    /\ script = "convert"
    /\ pc = "origin_meshes"
    /\ IF obj_i <= meshes
       THEN /\ LET obj == objects.meshes[obj_i]
               IN  IF obj.parent = "NONE" \/ obj.parent # "ARMATURE"
                   THEN /\ objects' = [objects EXCEPT !.meshes[obj_i] =
                               [obj EXCEPT !.origin = cursor,
                                           !.location = WorldOrigin]]
                        /\ calls' = calls \o <<ObjCall("origin_set", obj_i),
                                               ObjCall("location", obj_i)>>
                   ELSE /\ objects' = [objects EXCEPT !.meshes[obj_i] =
                               [obj EXCEPT !.origin = cursor,
                                           !.location = cursor]]
                        /\ calls' = Append(calls, ObjCall("origin_set", obj_i))
            /\ obj_i' = obj_i + 1
            /\ UNCHANGED pc
       ELSE /\ pc' = "export"
            /\ UNCHANGED <<objects, calls, obj_i>>
    /\ UNCHANGED <<runVars, exit_code, log, pathVars, presetVars, flagVars,
                   shadeVars, tposeVars, texVars, genVars, sceneVars, cursor>>

(***************************************************************************)
(* Runs                                                                    *)
(***************************************************************************)
\* The process as it starts: script scr, with or without "--", arguments a.
InitRun(scr, sep, a) ==
    /\ script = scr
    /\ hasSep = sep
    /\ args = a
    /\ pc = "start"
    /\ exit_code = None
    /\ log = <<>>
    /\ calls = <<>>
    /\ input_path = Unset
    /\ output_path = Unset
    /\ proceed_with_glb = Unset
    /\ use_webp_flag = Unset
    /\ ratio = Unset
    /\ texture_size = Unset
    /\ normal_map_size = Unset
    /\ remove_textures = Unset
    /\ fix_origin = Unset
    /\ keep_original_textures = Unset
    /\ texture_format = Unset
    /\ texture_quality = Unset
    /\ apply_texture_path = Unset
    /\ color = Unset
    /\ image_path = Unset
    /\ preserve_animations = Unset
    /\ host_scene = Unset
    /\ meshes = Unset
    /\ armature = Unset
    /\ nodes = Unset
    /\ images = Unset
    /\ images_before = Unset
    /\ normal_maps = Unset
    /\ regular_textures = Unset
    /\ tex_i = Unset
    /\ materials = Unset
    /\ tex_mat = Unset
    /\ objects = Unset
    /\ cursor = Unset
    /\ obj_i = Unset
    /\ scene = Unset
    /\ entity_id = Unset
    /\ grid_size = Unset
    /\ x = Unset
    /\ z = Unset

\* All sequences over S of length at most n
SeqsUpTo(S, n) == UNION {[1..k -> S] : k \in 0..n}

RECURSIVE OptionLists(_, _)
\* The token lists made of at most n groups of G, one after the other
OptionLists(G, n) ==
    IF n = 0 THEN {<<>>}
    ELSE LET shorter == OptionLists(G, n - 1)
         IN  shorter \cup {s \o g : s \in shorter, g \in G}

Tok1 == <<"1">>

Tok2 == <<"2">>

Tok3 == <<"3">>

Tok4 == <<"4">>

Tok5 == <<"5">>

TokHalf == <<"0",".","5">>

TokMinus5 == <<"-","5">>

Tok150 == <<"1","5","0">>

TokJpeg == <<"j","p","e","g">>

TokPng == <<"p","n","g">>

PathInFbx == <<"i","n",".","f","b","x">>

PathOutGlb == <<"o","u","t",".","g","l","b">>

PathUpperGlb == <<"M",".","G","L","B">>

PathTxt == <<"a",".","b",".","t","x","t">>

PathFbxSpace == <<"o",".","f","b","x"," ">>

PathDotFbx == <<".","f","b","x">>

PathUpperFbx == <<"B",".","F","B","X">>

PathGltf == <<"s",".","g","l","t","f">>

PathTexPng == <<"t","e","x",".","p","n","g">>

\* --- argument resolution of convert-low-poly.py ---
ArgFlags ==
    {FlagQuality, FlagRatio, FlagTextureSize, FlagNormalMapSize,
     FlagTextureFormat, FlagTextureQuality}

\* The value tokens tried after each flag: valid ones, ones out of range and
\* ones that do not parse
ArgValues(f) ==
    CASE f = FlagQuality -> {Tok1, Tok2, Tok3, Tok4, Tok5, Tok150, TokJpeg}
      [] f = FlagRatio -> {Tok1, TokHalf, TokMinus5, TokJpeg}
      [] f = FlagTextureSize -> {Tok5, Tok150, TokMinus5, TokHalf, TokJpeg}
      [] f = FlagNormalMapSize -> {Tok5, Tok150, TokJpeg}
      [] f = FlagTextureFormat -> {TokJpeg, TokPng, Tok1}
      [] f = FlagTextureQuality -> {Tok5, Tok150, TokMinus5, TokJpeg}

\* An option group: one token alone, or a flag followed by a value
ArgGroups ==
    {<<t>> : t \in ArgFlags \cup {FlagWebp, Tok1}}
        \cup UNION {{<<f, v>> : v \in ArgValues(f)} : f \in ArgFlags}

MaxOpts == 2

\* convert-low-poly.py run on <input> <output> and at most MaxOpts groups
InitArgs ==
    \E opts \in OptionLists(ArgGroups, MaxOpts) :
        InitRun("convert", TRUE, <<PathInFbx, PathOutGlb>> \o opts)

NextArgs ==
    \/ ParsePositional
    \/ ParseWebp
    \/ ParseQuality
    \/ ParseRatio
    \/ ParseTextureSize
    \/ ParseNormalMapSize
    \/ ParseTextureFormat
    \/ ParseTextureQuality
    \/ ParseFlags
    \/ ResolveNormalMapSize

SpecArgs == InitArgs /\ [][NextArgs]_vars

\* --- the three mesh-processing scripts, from start to exit ---
Paths ==
    {PathInFbx, PathUpperFbx, PathFbxSpace, PathOutGlb, PathUpperGlb,
     PathGltf, PathTxt, PathDotFbx}

\* Option groups given to convert-low-poly.py, in command-line order
ConvertGroups ==
    <<<<FlagGlb>>, <<FlagWebp>>, <<FlagQuality, Tok5>>, <<FlagRatio, TokJpeg>>,
      <<FlagRatio, TokMinus5>>,
      <<FlagNoFixOrigin>>, <<FlagRemoveTextures>>, <<FlagKeepOriginalTextures>>,
      <<FlagApplyTexture, PathTexPng>>, <<FlagApplyTexture>>>>

\* Option groups given to apply-shaded-texture.py, in command-line order
ShadedGroups ==
    <<<<FlagColor, Tok1, TokHalf, TokHalf, Tok1>>, <<FlagImage, PathTexPng>>,
      <<FlagColor>>, <<FlagImage>>>>

\* Option groups given to blender_prepare_tpose.py
TposeGroups == <<<<FlagPreserveAnimations>>>>

GroupsOf(scr) ==
    IF scr = "convert" THEN ConvertGroups
    ELSE IF scr = "shaded" THEN ShadedGroups
    ELSE IF scr = "tpose" THEN TposeGroups
    ELSE <<>>

RECURSIVE Pick(_, _)
\* The groups of G at the positions S, one after the other in the order of G
Pick(G, S) ==
    IF S = {} THEN <<>>
    ELSE LET i == CHOOSE k \in S : \A j \in S : k <= j
         IN  G[i] \o Pick(G, S \ {i})

\* The token lists made of at most n different groups of G, in the order of G
OptionSets(G, n) ==
    {Pick(G, S) : S \in {T \in SUBSET (1..Len(G)) : Cardinality(T) <= n}}

Scripts == {"convert", "shaded", "fixorigin", "tpose"}

MaxFlags == 2

\* A script started without "--", or with at most two paths and at most
\* MaxFlags option groups after them
Init ==
    \E scr \in Scripts :
        \/ InitRun(scr, FALSE, <<>>)
        \/ \E pos \in SeqsUpTo(Paths, 2), opts \in OptionSets(GroupsOf(scr), MaxFlags) :
               InitRun(scr, TRUE, pos \o opts)

Next ==
    \/ ParsePositional
    \/ ParseWebp
    \/ ParseQuality
    \/ ParseRatio
    \/ ParseTextureSize
    \/ ParseNormalMapSize
    \/ ParseTextureFormat
    \/ ParseTextureQuality
    \/ ParseFlags
    \/ ResolveNormalMapSize
    \/ CleanScene
    \/ ImportModel
    \/ RemoveAnimations
    \/ FindObjects
    \/ ProcessTextures
    \/ Decimate
    \/ FixOrigin
    \/ ExportGLB
    \/ ExportFBX
    \/ RunFixOriginChild
    \/ RunWebp
    \/ Summary
    \/ ShadedParseArgs
    \/ ShadedCleanScene
    \/ ShadedImport
    \/ ShadedFindMeshes
    \/ ShadedMaterial
    \/ ShadedExport
    \/ FixParseArgs
    \/ FixCleanScene
    \/ FixImport
    \/ FixLocate
    \/ FixSetOrigin
    \/ FixExport
    \/ TposeParseArgs
    \/ TposeCleanScene
    \/ TposeImport
    \/ TposeLocate
    \/ TposeSetOrigin
    \/ TposeExport

Spec == Init /\ [][Next]_vars

\* --- the fixture generator ---
InitGen == InitRun("generator", FALSE, <<>>)

NextGen ==
    \/ GenStart
    \/ GenEntity
    \/ GenNextColumn
    \/ GenReturn

SpecGen == InitGen /\ [][NextGen]_vars /\ WF_vars(NextGen)

\* --- the texture pass of convert-low-poly.py ---
MaxNodes == 2

\* What an image-texture node's outputs (Color, Alpha) are linked to
OutputLinks ==
    { <<<<>>, <<>>>>,
      <<<<"BSDF_PRINCIPLED">>, <<>>>>,
      <<<<"NORMAL_MAP">>, <<>>>>,
      <<<<"NORMAL_MAP">>, <<"NORMAL_MAP">>>>,
      <<<<"BSDF_PRINCIPLED", "NORMAL_MAP">>, <<>>>> }

ImageIds == {1, 2}

\* Image-texture nodes with an image, and the nodes the first pass skips
NodeKinds ==
    {Node(TRUE, "TEX_IMAGE", i, o) : i \in ImageIds, o \in OutputLinks} \cup
    { Node(FALSE, "TEX_IMAGE", 1, <<<<"NORMAL_MAP">>, <<>>>>),
      Node(TRUE, "TEX_IMAGE", 0, <<<<"NORMAL_MAP">>, <<>>>>),
      Node(TRUE, "BSDF_PRINCIPLED", 0, <<<<>>>>) }

\* Small and large, square and not, and an image without data
ImageKinds ==
    {Image(4, 4, TRUE), Image(100, 100, TRUE), Image(2, 200, TRUE),
     Image(0, 0, FALSE)}

\* convert-low-poly.py as it enters the pass: in.fbx out.glb with both
\* sizes given, the model imported, no --apply-texture, --remove-textures or
\* --keep-original-textures
InitTex ==
    \E ts \in {Tok5, Tok150}, nms \in {Tok5, Tok150},
       ns \in SeqsUpTo(NodeKinds, MaxNodes), imgs \in [ImageIds -> ImageKinds] :
        /\ script = "convert"
        /\ hasSep = TRUE
        /\ args = <<PathInFbx, PathOutGlb, FlagTextureSize, ts,
                    FlagNormalMapSize, nms>>
        /\ pc = "classify"
        /\ exit_code = None
        /\ log = <<>>
        /\ calls = <<Call("object.select_all"), Call("object.delete"),
                     PathCall("import_scene.fbx", PathInFbx),
                     Call("actions.remove")>>
        /\ input_path = PathInFbx
        /\ output_path = PathOutGlb
        /\ proceed_with_glb = FALSE
        /\ use_webp_flag = FALSE
        /\ ratio = Rat(15, 100)
        /\ texture_size = ParseInt(ts).val
        /\ normal_map_size = Some(ParseInt(nms).val)
        /\ remove_textures = FALSE
        /\ fix_origin = TRUE
        /\ keep_original_textures = FALSE
        /\ texture_format = <<"P", "N", "G">>
        /\ texture_quality = 90
        /\ apply_texture_path = None
        /\ color = Unset
        /\ image_path = Unset
        /\ preserve_animations = Unset
        /\ host_scene = [meshes |-> 1, armature |-> FALSE]
        /\ meshes = 1
        /\ armature = FALSE
        /\ nodes = ns
        /\ images = imgs
        /\ images_before = imgs
        /\ normal_maps = <<>>
        /\ regular_textures = <<>>
        /\ tex_i = 1
        /\ materials = Unset
        /\ tex_mat = Unset
        /\ objects = Unset
        /\ cursor = Unset
        /\ obj_i = Unset
    /\ objects = Unset
    /\ cursor = Unset
    /\ obj_i = Unset
        /\ scene = Unset
        /\ entity_id = Unset
        /\ grid_size = Unset
        /\ x = Unset
        /\ z = Unset

NextTex ==
    \/ ClassifyNode
    \/ ResizeNormalMap
    \/ ResizeRegularTexture
    \/ ResizeOtherImage

SpecTex == InitTex /\ [][NextTex]_vars

\* --- the material replacement of convert-low-poly.py and apply-shaded-texture.py ---
\* The options the texture stage of convert-low-poly.py branches on
MaterialGroups ==
    <<<<FlagQuality, Tok5>>, <<FlagGlb>>, <<FlagApplyTexture, PathTexPng>>,
      <<FlagApplyTexture>>, <<FlagRemoveTextures>>,
      <<FlagKeepOriginalTextures>>>>

\* Either script started on in.fbx out.glb with at most MaxFlags option groups
InitMat ==
    \/ \E opts \in OptionSets(MaterialGroups, MaxFlags) :
           InitRun("convert", TRUE, <<PathInFbx, PathOutGlb>> \o opts)
    \/ \E opts \in OptionSets(ShadedGroups, MaxFlags) :
           InitRun("shaded", TRUE, <<PathInFbx, PathOutGlb>> \o opts)

NextMat ==
    \/ ParsePositional
    \/ ParseWebp
    \/ ParseQuality
    \/ ParseRatio
    \/ ParseTextureSize
    \/ ParseNormalMapSize
    \/ ParseTextureFormat
    \/ ParseTextureQuality
    \/ ParseFlags
    \/ ResolveNormalMapSize
    \/ CleanScene
    \/ ImportModel
    \/ RemoveAnimations
    \/ FindObjects
    \/ BuildMaterial
    \/ ConvertRemoveImage
    \/ ConvertAssignMaterial
    \/ ShadedParseArgs
    \/ ShadedCleanScene
    \/ ShadedImport
    \/ ShadedFindMeshes
    \/ ShadedBuildMaterial
    \/ ShadedRemoveImage
    \/ ShadedAssignMaterial

SpecMat == InitMat /\ [][NextMat]_vars

\* --- the origin fix of convert-low-poly.py ---
OriginGroups == <<<<FlagNoFixOrigin>>>>

\* convert-low-poly.py started on in.fbx out.glb, with or without
\* --no-fix-origin
InitOrigin ==
    \E opts \in OptionSets(OriginGroups, MaxFlags) :
        InitRun("convert", TRUE, <<PathInFbx, PathOutGlb>> \o opts)

NextOrigin ==
    \/ ParsePositional
    \/ ParseWebp
    \/ ParseQuality
    \/ ParseRatio
    \/ ParseTextureSize
    \/ ParseNormalMapSize
    \/ ParseTextureFormat
    \/ ParseTextureQuality
    \/ ParseFlags
    \/ ResolveNormalMapSize
    \/ CleanScene
    \/ ImportModel
    \/ RemoveAnimations
    \/ FindObjects
    \/ ProcessTextures
    \/ Decimate
    \/ SetCursor
    \/ OriginArmature
    \/ OriginMesh

SpecOrigin == InitOrigin /\ [][NextOrigin]_vars

(***************************************************************************)
(* Properties of the argument resolution of convert-low-poly.py            *)
(***************************************************************************)
\* The numbers the decimal tokens of the runs stand for
IntTokens == {Tok1, Tok2, Tok3, Tok4, Tok5, TokMinus5, Tok150}

IntOf ==
    (Tok1 :> 1) @@ (Tok2 :> 2) @@ (Tok3 :> 3) @@ (Tok4 :> 4) @@ (Tok5 :> 5)
        @@ (TokMinus5 :> (0 - 5)) @@ (Tok150 :> 150)

FloatTokens == IntTokens \cup {TokHalf}

FloatOf(t) == IF t = TokHalf THEN Rat(1, 2) ELSE Rat(IntOf[t], 1)

FormatTokens == {TokJpeg, TokPng}

FormatOf(t) == IF t = TokJpeg THEN JPEG ELSE PNG

\* The flag is followed by a token: the token the script reads as its value
Given(f) == HasValue(args, f)

Arg(f) == ValueOf(args, f)

\* The settings are resolved and no scene operation has run yet
Resolved == script = "convert" /\ pc = "clean"

\* --quality q with q in 1..5
PresetGiven == Given(FlagQuality) /\ Arg(FlagQuality) \in {Tok1, Tok2, Tok3, Tok4, Tok5}

PresetArg == IntOf[Arg(FlagQuality)]

FieldFlags == {FlagRatio, FlagTextureSize, FlagTextureFormat, FlagTextureQuality}

\* The preset table as documented: one row per preset
PresetTable ==
    <<[ratio |-> Rat(5, 100),  texture_size |-> 256,  texture_format |-> JPEG, texture_quality |-> 75],
      [ratio |-> Rat(10, 100), texture_size |-> 512,  texture_format |-> JPEG, texture_quality |-> 85],
      [ratio |-> Rat(15, 100), texture_size |-> 1024, texture_format |-> PNG,  texture_quality |-> 90],
      [ratio |-> Rat(25, 100), texture_size |-> 2048, texture_format |-> PNG,  texture_quality |-> 90],
      [ratio |-> Rat(40, 100), texture_size |-> 4096, texture_format |-> PNG,  texture_quality |-> 90]>>

\* The row a preset yields in a run: presets 3, 4 and 5 leave texture_quality
\* as it was before the preset, 30 under --webp
PresetRow(q, webp) ==
    IF q \in 3..5 /\ webp
    THEN [PresetTable[q] EXCEPT !.texture_quality = 30]
    ELSE PresetTable[q]

TupleIs(row) ==
    /\ RatEq(ratio, row.ratio)
    /\ texture_size = row.texture_size
    /\ texture_format = row.texture_format
    /\ texture_quality = row.texture_quality

\* C1, as stated: with --quality q (q in 1..5) and none of --ratio,
\* --texture-size, --texture-format, --texture-quality, the resolved tuple
\* (ratio, texture_size, texture_format, texture_quality) is the table row of
\* q, whatever other flags are present.
C1_TableRowWhateverFlags ==
    (Resolved /\ PresetGiven /\ \A f \in FieldFlags : ~In(args, f))
        => TupleIs(PresetTable[PresetArg])

\* C1, amended: with --quality q (q in 1..5) and no explicit field flag, the
\* resolved tuple is the table row of q, except that under --webp presets 3, 4
\* and 5 resolve texture_quality to 30.
C1_PresetTuple ==
    (Resolved /\ PresetGiven /\ \A f \in FieldFlags : ~In(args, f))
        => TupleIs(PresetRow(PresetArg, In(args, FlagWebp)))

C1_WebpBeforePreset ==
    /\ Resolved /\ PresetGiven /\ \A f \in FieldFlags : ~In(args, f)
    /\ In(args, FlagWebp)
    /\ PresetArg = 3

\* The value a field flag of the run sets, when the flag carries a valid value
ExplicitOk(f) ==
    /\ Given(f)
    /\ CASE f = FlagRatio -> Arg(f) \in {Tok1, TokHalf}
         [] f = FlagTextureSize -> Arg(f) \in IntTokens /\ IntOf[Arg(f)] > 0
         [] f = FlagTextureFormat -> Arg(f) \in FormatTokens
         [] f = FlagTextureQuality -> Arg(f) \in IntTokens /\ IntOf[Arg(f)] \in 0..100

FieldIs(f, row) ==
    CASE f = FlagRatio -> RatEq(ratio, row.ratio)
      [] f = FlagTextureSize -> texture_size = row.texture_size
      [] f = FlagTextureFormat -> texture_format = row.texture_format
      [] f = FlagTextureQuality -> texture_quality = row.texture_quality

ExplicitRow ==
    [ratio |-> IF ExplicitOk(FlagRatio) THEN FloatOf(Arg(FlagRatio)) ELSE Rat(0, 1),
     texture_size |-> IF ExplicitOk(FlagTextureSize) THEN IntOf[Arg(FlagTextureSize)] ELSE 0,
     texture_format |-> IF ExplicitOk(FlagTextureFormat)
                        THEN FormatOf(Arg(FlagTextureFormat)) ELSE PNG,
     texture_quality |-> IF ExplicitOk(FlagTextureQuality)
                         THEN IntOf[Arg(FlagTextureQuality)] ELSE 0]

\* C2: with --quality q (q in 1..5) and a validly-valued explicit flag for
\* one field, that field resolves to the explicit value and every field
\* without an explicit flag keeps the value of the preset, in whichever order
\* the flags stand on the command line.
C2_ExplicitOverridesPreset ==
    (Resolved /\ PresetGiven) =>
        \A f \in FieldFlags :
            /\ ExplicitOk(f) => FieldIs(f, ExplicitRow)
            /\ ~In(args, f) => FieldIs(f, PresetRow(PresetArg, In(args, FlagWebp)))

C2_RatioBeforePreset ==
    /\ Resolved /\ PresetGiven
    /\ ExplicitOk(FlagRatio) /\ Arg(FlagRatio) = TokHalf
    /\ Index(args, FlagRatio) < Index(args, FlagQuality)
    /\ PresetArg = 4
    /\ \A f \in FieldFlags \ {FlagRatio} : ~In(args, f)

\* C3: an integer v given to --texture-quality is stored as 0 when v < 0, as
\* 100 when v > 100 and as v otherwise; once the arguments are resolved
\* texture_quality lies within 0..100.
C3_QualityClamped ==
    Resolved =>
        /\ texture_quality \in 0..100
        /\ (Given(FlagTextureQuality) /\ Arg(FlagTextureQuality) \in IntTokens) =>
               LET v == IntOf[Arg(FlagTextureQuality)]
               IN  /\ v < 0 => texture_quality = 0
                   /\ v > 100 => texture_quality = 100
                   /\ v \in 0..100 => texture_quality = v

C3_QualityAbove100 ==
    /\ Resolved
    /\ Given(FlagTextureQuality)
    /\ Arg(FlagTextureQuality) = Tok150

\* C4: without a --normal-map-size flag the resolved normal_map_size is the
\* final texture_size, the one left by --webp, the preset and --texture-size.
C4_NormalMapFollowsTexture ==
    (Resolved /\ ~In(args, FlagNormalMapSize)) => normal_map_size = Some(texture_size)

C4_ExplicitTextureSize ==
    /\ Resolved
    /\ ~In(args, FlagNormalMapSize)
    /\ Given(FlagTextureSize) /\ Arg(FlagTextureSize) = Tok150
    /\ In(args, FlagWebp)

(***************************************************************************)
(* Properties of the import and export dispatch of the scripts             *)
(***************************************************************************)
\* The run was given "--" and both positional paths
InputGiven == hasSep /\ Len(args) >= 2

SupportedExts == {ExtFbx, ExtGlb, ExtGltf}

\* The extension of the input path, lower-cased, is none of .fbx .glb .gltf
UnsupportedInput == Lower(SplitExt(args[1])[2]) \notin SupportedExts

ExportOps == {"export_scene.gltf", "export_scene.fbx"}

ImportOps == {"import_scene.gltf", "import_scene.fbx"}

PostOps == {"subprocess.fix-origin-bottom", "subprocess.gltf-transform-webp"}

Invoked(ops) == \E i \in 1..Len(calls) : calls[i].op \in ops

\* The positions of a script up to and including its import step
BeforeImport ==
    {"start", "defaults", "quality", "ratio", "texture_size", "normal_map_size",
     "texture_format", "texture_quality", "flags", "normal_map_default",
     "clean", "import"}

\* C5: in convert-low-poly, apply-shaded-texture and fix-origin-bottom, an
\* input path whose extension is, case-insensitively, none of .fbx, .glb,
\* .gltf lets the run end only with exit code 1, and neither an import nor an
\* export routine is ever invoked.
C5_UnsupportedInputExits ==
    (script \in {"convert", "shaded", "fixorigin"} /\ InputGiven /\ UnsupportedInput) =>
        /\ pc \in BeforeImport \cup {"exit"}
        /\ pc = "exit" => exit_code = Some(1)
        /\ pc # "exit" => exit_code = None
        /\ ~Invoked(ExportOps \cup ImportOps)

C5_UnsupportedRejected ==
    /\ script \in {"convert", "shaded", "fixorigin"} /\ InputGiven /\ UnsupportedInput
    /\ args[1] = PathTxt
    /\ pc = "exit"
    /\ In(log, "Unsupported file extension")

\* convert-low-poly.py was given --glb and has read its positional arguments
GlbRun ==
    script = "convert" /\ InputGiven /\ In(args, FlagGlb) /\ pc \notin {"start", "crash"}

\* C6: with --glb, the path handed to the exporter and to the post-processing
\* steps ends, case-insensitively, in .glb: it is the given output path when
\* that already ends in .glb, and otherwise the given path with only its last
\* extension replaced by .glb.
C6_GlbOutputPath ==
    GlbRun =>
        /\ EndsWith(Lower(output_path), ExtGlb)
        /\ EndsWith(Lower(args[2]), ExtGlb) => output_path = args[2]
        /\ ~EndsWith(Lower(args[2]), ExtGlb) =>
               output_path = SplitExt(args[2])[1] \o ExtGlb
        /\ \A i \in 1..Len(calls) :
               calls[i].op \in ExportOps \cup PostOps => calls[i].path = output_path

C6_LastExtensionReplaced ==
    /\ GlbRun
    /\ args[2] = PathTxt
    /\ pc = "done"
    /\ Invoked({"export_scene.gltf"})
    /\ Invoked(PostOps)

\* convert-low-poly.py, without --glb, has reached its export step and left it
FbxExportDecided ==
    /\ script = "convert" /\ InputGiven /\ ~In(args, FlagGlb)
    /\ \/ pc = "done"
       \/ pc = "exit" /\ In(log, "[ERROR] Output path must end with .fbx")

\* C7, as stated: without --glb, the FBX exporter is invoked iff the output
\* path ends in .fbx (in either case of the letters); otherwise the run ends
\* with exit code 1 and no exporter is invoked.
C7_FbxIffEndsInFbx ==
    FbxExportDecided =>
        /\ Invoked({"export_scene.fbx"}) <=> EndsWith(Lower(args[2]), ExtFbx)
        /\ ~EndsWith(Lower(args[2]), ExtFbx) =>
               exit_code = Some(1) /\ ~Invoked(ExportOps)

\* C7, amended: without --glb, a run that reaches the export step invokes the
\* FBX exporter iff the output path, stripped of surrounding whitespace and
\* lower-cased, ends in .fbx; otherwise it ends with exit code 1 and no
\* exporter is invoked.
C7_FbxIffStrippedEndsInFbx ==
    FbxExportDecided =>
        /\ Invoked({"export_scene.fbx"}) <=> EndsWith(Lower(Strip(args[2])), ExtFbx)
        /\ Invoked({"export_scene.fbx"}) => exit_code = Some(0)
        /\ ~EndsWith(Lower(Strip(args[2])), ExtFbx) =>
               exit_code = Some(1) /\ ~Invoked(ExportOps)

C7_TrailingSpaceExported ==
    /\ FbxExportDecided
    /\ args[2] = PathFbxSpace
    /\ Invoked({"export_scene.fbx"})

(***************************************************************************)
(* Properties of generate_lod_performance_scene.py                         *)
(***************************************************************************)
\* The returned document: the camera first, then the grid entities numbered
\* 1..EntityCount, each number once, under the four top-level keys
SceneShape ==
    /\ DOMAIN scene = {"name", "version", "entities", "metadata"}
    /\ Len(scene.entities) = EntityCount + 1
    /\ scene.entities[1].id = 0
    /\ scene.entities[1].name = <<"camera">>
    /\ {scene.entities[i].id : i \in 2..Len(scene.entities)} = 1..EntityCount
    /\ \A i \in 2..Len(scene.entities) : scene.entities[i].id = i - 1

\* C8: generate_performance_scene() returns, and the document it returns has
\* 1001 entities, the camera with id 0 and grid entities whose ids are
\* exactly 1..1000, each once, under the top-level keys name, version,
\* entities and metadata.
C8_GeneratorReturns == <>[](pc = "returned" /\ SceneShape)

C8_Returned ==
    /\ script = "generator"
    /\ pc = "returned"
    /\ entity_id = EntityCount + 1
    /\ Len(scene.entities) = EntityCount + 1

(***************************************************************************)
(* Properties of the handling of bad option values in convert-low-poly.py  *)
(***************************************************************************)
NumericFlags ==
    {FlagQuality, FlagRatio, FlagTextureSize, FlagNormalMapSize, FlagTextureQuality}

OptionFlags == NumericFlags \cup {FlagTextureFormat}

\* The positions of the argument resolution, in order
ArgStages ==
    <<"start", "defaults", "quality", "ratio", "texture_size", "normal_map_size",
      "texture_format", "texture_quality", "flags", "normal_map_default", "clean">>

StageIndex(l) == CHOOSE i \in 1..Len(ArgStages) : ArgStages[i] = l

\* The position at which the value of flag f is read
StageOf(f) ==
    CASE f = FlagQuality -> "quality"
      [] f = FlagRatio -> "ratio"
      [] f = FlagTextureSize -> "texture_size"
      [] f = FlagNormalMapSize -> "normal_map_size"
      [] f = FlagTextureFormat -> "texture_format"
      [] f = FlagTextureQuality -> "texture_quality"

NextStage(f) == ArgStages[StageIndex(StageOf(f)) + 1]

\* The run has gone on past the position at which f is read
PastStage(f) ==
    \E i \in 1..Len(ArgStages) : ArgStages[i] = pc /\ i > StageIndex(StageOf(f))

\* What is printed for a bad value of f
Report(f) ==
    CASE f = FlagQuality -> "Invalid quality value"
      [] f = FlagRatio -> "Invalid ratio value"
      [] f = FlagTextureSize -> "Invalid texture size"
      [] f = FlagNormalMapSize -> "Invalid normal map size"
      [] f = FlagTextureFormat -> "Invalid texture format"
      [] f = FlagTextureQuality -> "Invalid texture quality"

\* The value read for the numeric flag f is not a number of its type
Unparsable(f) ==
    Given(f) /\ Arg(f) \notin (IF f = FlagRatio THEN FloatTokens ELSE IntTokens)

\* The value read for f is unparsable, or names no texture format
Invalid(f) ==
    IF f = FlagTextureFormat THEN Given(f) /\ Arg(f) \notin FormatTokens
    ELSE Unparsable(f)

\* C9, as stated: a value of --quality, --ratio, --texture-size,
\* --normal-map-size or --texture-quality that does not parse as a number
\* makes the run report an error and abort with a non-zero exit code before
\* any scene is loaded.
C9_UnparsableNumberAborts ==
    \A f \in NumericFlags :
        (script = "convert" /\ Unparsable(f)) =>
            /\ ~PastStage(f)
            /\ pc = "exit" => exit_code = Some(1)

\* C9, amended: an unparsable --ratio value is reported and aborts the run
\* with exit code 1 before any scene is loaded; an unparsable value of
\* --quality, --texture-size, --normal-map-size or --texture-quality is
\* reported and the run goes on, and never aborts for it.
C9_OnlyRatioAborts ==
    script = "convert" =>
        /\ Unparsable(FlagRatio) =>
               /\ ~PastStage(FlagRatio)
               /\ pc = "exit" =>
                      /\ exit_code = Some(1)
                      /\ In(log, Report(FlagRatio))
                      /\ calls = <<>>
        /\ pc = "exit" => Unparsable(FlagRatio)
        /\ \A f \in NumericFlags \ {FlagRatio} :
               (Unparsable(f) /\ PastStage(f)) => In(log, Report(f))

C9_BadSizeGoesOn ==
    /\ script = "convert"
    /\ pc = "clean"
    /\ Unparsable(FlagTextureSize)
    /\ Unparsable(FlagQuality)
    /\ calls = <<>>

\* The setting of flag f stays as it was
FieldKept(f) ==
    CASE f = FlagQuality -> UNCHANGED presetVars
      [] f = FlagRatio -> UNCHANGED ratio
      [] f = FlagTextureSize -> UNCHANGED texture_size
      [] f = FlagNormalMapSize -> UNCHANGED normal_map_size
      [] f = FlagTextureFormat -> UNCHANGED texture_format
      [] f = FlagTextureQuality -> UNCHANGED texture_quality

\* Reading the bad value of f: it is reported, the setting is kept and the
\* run goes to the next position
ReportedAndKept(f) ==
    (pc = StageOf(f) /\ Invalid(f)) =>
        /\ pc' = NextStage(f)
        /\ FieldKept(f)
        /\ log' = Append(log, Report(f))
        /\ exit_code' = None

\* C10, as stated: an unparsable or invalid value of any option flag is not
\* fatal: the error is reported, the option keeps the value it had before
\* the flag was read, and the run goes on towards scene loading.
C10_BadValueNeverFatal ==
    [][script = "convert" => \A f \in OptionFlags : ReportedAndKept(f)]_vars

\* C10, amended: an unparsable value of --quality, --texture-size,
\* --normal-map-size or --texture-quality and an unrecognised --texture-format
\* are reported, leave the option as it was and let the run go on to scene
\* loading; an integer --quality outside 1..5 changes nothing and is not
\* reported; an unparsable --ratio is reported and ends the run with exit
\* code 1, the ratio unchanged.
C10_BadValueFatalOnlyForRatio ==
    /\ [][script = "convert" =>
            /\ \A f \in OptionFlags \ {FlagRatio} : ReportedAndKept(f)
            /\ (pc = "quality" /\ Given(FlagQuality)
                    /\ Arg(FlagQuality) \in IntTokens
                    /\ IntOf[Arg(FlagQuality)] \notin 1..5) =>
                   /\ pc' = "ratio"
                   /\ UNCHANGED <<presetVars, log, exit_code>>
            /\ (pc = "ratio" /\ Invalid(FlagRatio)) =>
                   /\ pc' = "exit"
                   /\ exit_code' = Some(1)
                   /\ UNCHANGED ratio
                   /\ log' = Append(log, Report(FlagRatio))]_vars
    /\ [](script = "convert" /\ pc = "exit" => Invalid(FlagRatio))

C10_BadFormatKept ==
    /\ script = "convert"
    /\ pc = "clean"
    /\ Invalid(FlagTextureFormat)
    /\ In(args, FlagWebp)
    /\ texture_format = JPEG
    /\ In(log, Report(FlagTextureFormat))

(***************************************************************************)
(* Properties of the scripts' error paths and post-processing              *)
(***************************************************************************)
\* No "--" separator, or fewer than two tokens after it
MissingPositional == ~hasSep \/ Len(args) < 2

\* C11: in convert-low-poly.py, apply-shaded-texture.py, fix-origin-bottom.py
\* and blender_prepare_tpose.py, a run without "--" or with fewer than two
\* tokens after it ends through the script's own error path with exit code
\* 1, never through an uncaught exception, and before the scene is cleared
\* or a file imported.
C11_MissingArgumentsExit1 ==
    (script \in Scripts /\ MissingPositional) =>
        /\ pc \in {"start", "exit"}
        /\ pc = "exit" => exit_code = Some(1)
        /\ calls = <<>>

\* C12: in the GLB branch of convert-low-poly.py a failure of the
\* fix-origin-bottom.py child or of the gltf-transform WebP converter, be it
\* a non-zero return code or an executable that cannot be launched, is
\* reported and not fatal: the run goes on to the next post-processing step
\* and the size summary and ends normally, and the WebP conversion is still
\* attempted after a failed origin-fix child.
C12_ExternalFailuresNotFatal ==
    (script = "convert" /\ Invoked(PostOps)) =>
        /\ pc \in {"webp", "summary", "done"}
        /\ exit_code \in {None, Some(0)}
        /\ (pc \in {"summary", "done"} /\ use_webp_flag) =>
               Invoked({"subprocess.gltf-transform-webp"})
        /\ pc = "done" => exit_code = Some(0)

\* C13: in every run of convert-low-poly.py that reaches the texture and
\* decimation stages the settings are within their documented ranges,
\* 0 < ratio <= 1, texture_size > 0 and normal_map_size > 0, whatever values
\* were passed to --ratio, --texture-size and --normal-map-size.
C13_SettingsWithinRanges ==
    (script = "convert" /\ pc \in {"textures", "decimate"}) =>
        /\ ratio.kind = "fin"
        /\ 0 < ratio.num /\ ratio.num <= ratio.den
        /\ texture_size > 0
        /\ normal_map_size # None /\ normal_map_size[1] > 0

\* C14: whenever --webp is present (and no explicit --texture-format), the
\* resolved texture_format of convert-low-poly.py is JPEG, with
\* texture_quality 30 and texture_size 32 unless --texture-quality /
\* --texture-size is given; a --quality preset of the same run does not move
\* texture_format away from JPEG.
C14_WebpForcesJpeg ==
    (Resolved /\ In(args, FlagWebp) /\ ~In(args, FlagTextureFormat)) =>
        /\ texture_format = JPEG
        /\ ~In(args, FlagTextureQuality) => texture_quality = 30
        /\ ~In(args, FlagTextureSize) => texture_size = 32

\* The position in calls of the first call of one of ops
FirstCall(ops) == CHOOSE i \in 1..Len(calls) :
                      calls[i].op \in ops /\ \A j \in 1..(i - 1) : calls[j].op \notin ops

\* The run of the script is over
Ended == pc \in {"done", "exit", "crash"}

\* C15: in every run of convert-low-poly.py that completes its primary
\* export, GLB or FBX, the WebP converter is invoked exactly when --webp was
\* given: never without it, always with it, and after the primary export.
C15_WebpConverterIffFlag ==
    (script = "convert" /\ Ended /\ Invoked(ExportOps)) =>
        /\ Invoked({"subprocess.gltf-transform-webp"}) <=> In(args, FlagWebp)
        /\ Invoked({"subprocess.gltf-transform-webp"}) =>
               FirstCall(ExportOps) < FirstCall({"subprocess.gltf-transform-webp"})

\* The exporter op suits the extension of path p, surrounding whitespace and
\* the case of the letters aside
ExporterSuits(op, p) ==
    /\ op = "export_scene.fbx" => EndsWith(Lower(Strip(p)), ExtFbx)
    /\ op = "export_scene.gltf" =>
           EndsWith(Lower(Strip(p)), ExtGlb) \/ EndsWith(Lower(Strip(p)), ExtGltf)

\* C16, as stated: in every mesh-processing script the exporter is selected
\* by the extension of the output path, .fbx by the FBX exporter, .glb and
\* .gltf by the GLTF exporter; no script writes a file with an exporter that
\* does not suit the extension of the path it writes to.
C16_ExporterByExtension ==
    script \in Scripts =>
        \A i \in 1..Len(calls) :
            calls[i].op \in ExportOps => ExporterSuits(calls[i].op, calls[i].path)

\* C16, amended: apply-shaded-texture.py selects the exporter by the
\* lower-cased output path (.fbx: FBX; .glb, .gltf: GLTF; otherwise exit code
\* 1 and no exporter). convert-low-poly.py selects it by --glb: with --glb
\* the GLTF exporter writes the path corrected to end in .glb, without it
\* the FBX exporter writes a path that ends in .fbx once stripped and
\* lower-cased. fix-origin-bottom.py and blender_prepare_tpose.py always
\* write the output path as given with the GLTF exporter, whatever its
\* extension.
C16_ExporterPerScript ==
    \A i \in 1..Len(calls) :
        calls[i].op \in ExportOps =>
            /\ script = "shaded" =>
                   /\ calls[i].path = args[2]
                   /\ ExporterSuits(calls[i].op, calls[i].path)
                   /\ calls[i].op = "export_scene.fbx" <=>
                          EndsWith(Lower(args[2]), ExtFbx)
            /\ script = "convert" =>
                   /\ ExporterSuits(calls[i].op, calls[i].path)
                   /\ calls[i].op = "export_scene.gltf" <=> In(args, FlagGlb)
            /\ script \in {"fixorigin", "tpose"} =>
                   /\ calls[i].op = "export_scene.gltf"
                   /\ calls[i].path = args[2]

\* apply-shaded-texture.py: an output path of no supported extension is fatal
C16_ShadedUnsupportedOutput ==
    (script = "shaded" /\ InputGiven
        /\ \A e \in SupportedExts : ~EndsWith(Lower(args[2]), e)) =>
        /\ ~Invoked(ExportOps)
        /\ pc # "done"
        /\ pc = "exit" => exit_code = Some(1)

C16_ExportDispatch == C16_ExporterPerScript /\ C16_ShadedUnsupportedOutput

C16_GlbWrittenToFbxPath ==
    /\ script = "fixorigin"
    /\ pc = "done"
    /\ args[2] = PathInFbx
    /\ Invoked({"export_scene.gltf"})

\* The calls of an origin-fix pass: in-process, or by the child process
OriginFixOps ==
    {"cursor.location", "origin_set", "origin_set.armature",
     "subprocess.fix-origin-bottom"}

\* C17: with --no-fix-origin, convert-low-poly.py applies no origin-fix pass
\* to the model in any export mode: neither the in-process origin fix nor
\* the fix-origin-bottom.py child process is run.
C17_NoFixOriginMeansNone ==
    (script = "convert" /\ In(args, FlagNoFixOrigin)) => ~Invoked(OriginFixOps)

(***************************************************************************)
(* Properties of the texture pass of convert-low-poly.py                    *)
(***************************************************************************)
\* The images referenced by image-texture nodes
ReferencedImages ==
    {nodes[k].image : k \in {j \in 1..Len(nodes) : HoldsImage(nodes[j])}}

\* Some output of a node holding the image is linked to a normal-map node
IsNormalMap(id) ==
    \E k \in 1..Len(nodes) :
        /\ HoldsImage(nodes[k])
        /\ nodes[k].image = id
        /\ \E o \in 1..Len(nodes[k].outputs) : LinkedToNormalMap(nodes[k].outputs[o])

\* The first pass is over
Classified ==
    /\ script = "convert"
    /\ pc \in {"resize_normal_maps", "resize_regular_textures",
               "resize_other_images", "decimate"}

\* C18: once the classification pass is over, every image referenced by an
\* image-texture node is in exactly one of normal_maps and regular_textures:
\* in normal_maps iff some output of a node holding it is linked to a
\* normal-map node, and in regular_textures otherwise; also for an image that
\* several nodes share.
C18_ClassificationPartitions ==
    Classified =>
        \A id \in ReferencedImages :
            /\ Holds(normal_maps, id) <=> IsNormalMap(id)
            /\ Holds(regular_textures, id) <=> ~IsNormalMap(id)

\* normal_map_size for normal maps, texture_size for every other image
ClassTarget(id) == IF IsNormalMap(id) THEN normal_map_size[1] ELSE texture_size

\* The resize pass is over
Resized == script = "convert" /\ pc = "decimate"

\* C19: after the resize pass, an image that was within its class target in
\* both dimensions is as it was, any other image with data is target x target
\* in size, and every image with data is within its class target.
C19_ResizedToClassTarget ==
    Resized =>
        \A id \in DOMAIN images :
            LET before == images_before[id]
                target == ClassTarget(id)
                within == before.w <= target /\ before.h <= target
            IN  /\ within => images[id] = before
                /\ (before.has_data /\ ~within) =>
                       (images[id].w = target /\ images[id].h = target)
                /\ images[id].has_data =>
                       (images[id].w <= target /\ images[id].h <= target)

\* C20: throughout the texture pass no image is wider or higher than the pass
\* found it, square or not.
C20_ResizeNeverEnlarges ==
    (script = "convert" /\ (pc = "classify" \/ Classified)) =>
        \A id \in DOMAIN images :
            /\ images[id].w <= images_before[id].w
            /\ images[id].h <= images_before[id].h

(***************************************************************************)
(* Properties of the material replacement                                  *)
(***************************************************************************)
\* The option that names the image to apply
ImageFlag == IF script = "convert" THEN FlagApplyTexture ELSE FlagImage

\* An image path is given
ImageGiven == HasValue(args, ImageFlag) /\ ValueOf(args, ImageFlag) # <<>>

\* The run replaces the materials
Replacing ==
    \/ script = "shaded"
    \/ script = "convert" /\ (ImageGiven \/ In(args, FlagRemoveTextures))

\* The material pass is over
Replaced ==
    \/ script = "convert" /\ pc = "decimate"
    \/ script = "shaded" /\ pc = "export"

\* The material the run is to build
NewMaterial ==
    IF ImageGiven THEN "ImageTextureMaterial"
    ELSE IF script = "convert" THEN "SimpleMaterial"
    ELSE "ShadedMaterial"

\* C21: after the material pass of apply-shaded-texture.py, and of
\* convert-low-poly.py run with --apply-texture <path> or --remove-textures
\* (whatever --keep-original-textures or the preset say), every mesh has
\* exactly one material, the one the script built: fed by the image loaded
\* from the given path when a path is given, flat otherwise; and no image but
\* the applied one is left in the scene.
C21_MaterialReplacementTotal ==
    (Replaced /\ Replacing) =>
        /\ \A m \in 1..meshes : materials[m] = <<NewMaterial>>
        /\ tex_mat.name = NewMaterial
        /\ ImageGiven <=> tex_mat.image # 0
        /\ ImageGiven =>
               \E k \in 1..Len(calls) :
                   calls[k] = PathCall("images.load", ValueOf(args, ImageFlag))
        /\ images = IF ImageGiven THEN <<tex_mat.image>> ELSE <<>>

\* --remove-textures with --keep-original-textures: two meshes given the flat
\* material, an imported image removed
C21_RemoveDespiteKeep ==
    /\ Replaced
    /\ script = "convert"
    /\ In(args, FlagRemoveTextures)
    /\ In(args, FlagKeepOriginalTextures)
    /\ meshes = 2
    /\ materials = <<<<"SimpleMaterial">>, <<"SimpleMaterial">>>>
    /\ \E k \in 1..Len(calls) : calls[k].op = "images.remove"

(***************************************************************************)
(* Properties of the origin fix of convert-low-poly.py                     *)
(***************************************************************************)
\* The origin stage is over, and it had to fix the origin
OriginFixed ==
    script = "convert" /\ pc = "export" /\ fix_origin /\ meshes > 0

\* The mesh m has the most vertices
MostVertices(m) ==
    \A j \in 1..meshes : objects.meshes[j].vertices <= objects.meshes[m].vertices

\* The first of the meshes with the most vertices
FirstLargest ==
    CHOOSE m \in 1..meshes : MostVertices(m) /\ \A j \in 1..(m - 1) : ~MostVertices(j)

\* The coordinates of the corners of the first largest mesh's box, axis k
Extent(k) ==
    LET box == objects.meshes[FirstLargest].bound_box
    IN  {box[c][k] : c \in 1..Len(box)}

Lowest(S) == CHOOSE v \in S : \A w \in S : v <= w

Highest(S) == CHOOSE v \in S : \A w \in S : v >= w

\* The position of the first call of routine op on object o (0: none)
CallIndex(op, o) ==
    IF \E k \in 1..Len(calls) : calls[k].op = op /\ calls[k].obj = o
    THEN CHOOSE k \in 1..Len(calls) :
             /\ calls[k].op = op /\ calls[k].obj = o
             /\ \A j \in 1..(k - 1) : ~(calls[j].op = op /\ calls[j].obj = o)
    ELSE 0

\* C22: after the origin stage of a run with origin fixing on and a mesh, the
\* cursor is at ((minX+maxX)/2, (minY+maxY)/2, minZ) of the bounding box of
\* the first mesh with the most vertices; the armature (if any) and after it
\* every mesh had its origin set to the cursor; the armature and every mesh
\* whose parent is not an armature are at (0,0,0); and the location of a mesh
\* parented to an armature was never assigned.
C22_OriginAtBottomCenter ==
    OriginFixed =>
        /\ RatEq(cursor[1], Rat(Lowest(Extent(1)) + Highest(Extent(1)), 2))
        /\ RatEq(cursor[2], Rat(Lowest(Extent(2)) + Highest(Extent(2)), 2))
        /\ RatEq(cursor[3], Rat(Lowest(Extent(3)), 1))
        /\ CallIndex("cursor.location", 0) > 0
        /\ armature =>
               /\ objects.armature[1].origin = cursor
               /\ objects.armature[1].location = WorldOrigin
               /\ CallIndex("origin_set.armature", 0) > CallIndex("cursor.location", 0)
        /\ \A m \in 1..meshes :
               /\ objects.meshes[m].origin = cursor
               /\ CallIndex("origin_set", m) > CallIndex("cursor.location", 0)
               /\ CallIndex("origin_set", m) > CallIndex("origin_set.armature", 0)
               /\ \A j \in 1..(m - 1) :
                      CallIndex("origin_set", j) < CallIndex("origin_set", m)
               /\ IF objects.meshes[m].parent = "ARMATURE"
                  THEN CallIndex("location", m) = 0
                  ELSE objects.meshes[m].location = WorldOrigin

\* Two meshes with as many vertices and different boxes, the first one
\* parented to the armature: the cursor at the first one's bottom centre,
\* (0.5, -1.5, 1)
C22_TieWithArmatureChild ==
    /\ OriginFixed
    /\ armature
    /\ meshes = 2
    /\ objects.meshes[1].vertices = objects.meshes[2].vertices
    /\ objects.meshes[1].bound_box # objects.meshes[2].bound_box
    /\ objects.meshes[1].parent = "ARMATURE"
    /\ objects.meshes[2].parent = "NONE"
    /\ cursor = <<Rat(5, 10), Rat(0 - 15, 10), Rat(1, 1)>>
    /\ objects.meshes[1].location = cursor
    /\ objects.meshes[2].location = WorldOrigin

(***************************************************************************)
(* Properties of the order of the stages of convert-low-poly.py            *)
(***************************************************************************)
ClearOps == {"object.delete"}

StripOps == {"actions.remove"}

TextureOps ==
    {"materials.new", "images.load", "images.remove_others",
     "images.remove_all", "images.scale", "materials.clear",
     "materials.append"}

DecimateOps ==
    {"mesh.remove_doubles", "modifiers.new.DECIMATE", "modifiers.new.SMOOTH",
     "modifier_apply.Decimate", "modifier_apply.Smooth"}

InProcessOriginOps == {"cursor.location", "origin_set.armature", "origin_set"}

\* The stage the i-th call belongs to; select_all opens the scene clear when
\* the delete follows it and the export otherwise
StageRank(i) ==
    LET op == calls[i].op
    IN  IF op = "object.select_all"
        THEN IF i < Len(calls) /\ calls[i + 1].op = "object.delete" THEN 1 ELSE 7
        ELSE IF op \in ClearOps THEN 1
        ELSE IF op \in ImportOps THEN 2
        ELSE IF op \in StripOps THEN 3
        ELSE IF op \in TextureOps THEN 4
        ELSE IF op \in DecimateOps THEN 5
        ELSE IF op \in InProcessOriginOps THEN 6
        ELSE IF op \in ExportOps THEN 7
        ELSE IF op = "subprocess.fix-origin-bottom" THEN 8
        ELSE 9

\* How often a routine of ops was called
Count(ops) == Cardinality({i \in 1..Len(calls) : calls[i].op \in ops})

IsDecimateCall(c) == c.op \in DecimateOps

\* What the decimation of one mesh calls, in order
DecimateOrder ==
    <<"mesh.remove_doubles", "modifiers.new.DECIMATE", "modifiers.new.SMOOTH",
      "modifier_apply.Decimate", "modifier_apply.Smooth">>

\* The first export attempt was refused and the export repeated
ExportRepeated ==
    \E k \in 1..Len(log) : log[k] = "[WARNING] Using simplified export settings"

\* C23: in a run of convert-low-poly.py that has reached its export, the calls
\* made so far are in stage order -- scene clear, import, animation strip,
\* textures / materials, decimation, origin fix, export, fix-origin child,
\* WebP converter -- with each stage run at most once (the export call
\* repeated only after its first attempt was refused); every mesh in turn got
\* merge doubles, the decimate and the smooth modifier, and both applied,
\* before the next mesh; and nothing but the child and then the converter
\* comes after the export.
C23_StagesInOrder ==
    (script = "convert" /\ Invoked(ExportOps)) =>
        /\ \A i, j \in 1..Len(calls) : i < j => StageRank(i) <= StageRank(j)
        /\ Count(ClearOps) = 1
        /\ Count(ImportOps) = 1
        /\ Count(StripOps) = 1
        /\ Count({"object.select_all"}) <= 2
        /\ Count({"cursor.location"}) <= 1
        /\ Count({"origin_set.armature"}) <= 1
        /\ \A m \in 1..meshes :
               Cardinality({i \in 1..Len(calls) :
                   calls[i].op = "origin_set" /\ calls[i].obj = m}) <= 1
        /\ Count(ExportOps) = IF ExportRepeated THEN 2 ELSE 1
        /\ Count({"subprocess.fix-origin-bottom"}) <= 1
        /\ Count({"subprocess.gltf-transform-webp"}) <= 1
        /\ LET done == SelectSeq(calls, IsDecimateCall)
           IN  /\ Len(done) = 5 * meshes
               /\ \A k \in 1..Len(done) :
                      /\ done[k].obj = ((k - 1) \div 5) + 1
                      /\ done[k].op = DecimateOrder[((k - 1) % 5) + 1]

\* A GLB run on two meshes and an armature that resized textures, fixed the
\* origin, exported, ran the child and then the converter
C23_AllStagesRun ==
    /\ script = "convert"
    /\ pc = "done"
    /\ meshes = 2
    /\ armature
    /\ Invoked({"images.scale"})
    /\ Invoked({"origin_set.armature"})
    /\ Invoked({"export_scene.gltf"})
    /\ Invoked({"subprocess.fix-origin-bottom"})
    /\ Invoked({"subprocess.gltf-transform-webp"})

=============================================================================
